---- MODULE Spec2Model ----
(***************************************************************************)
(* Model of the csafx dataset synchronisation engine:                      *)
(*   pkg/csaf/download/download.go  (FromDirectoryURL and its strategies)  *)
(*   pkg/csaf/cache                 (metadata store, dataset catalog)      *)
(*                                                                         *)
(* Text is modelled as a sequence of tokens.  A token is either one        *)
(* special character ("/", ":", " ", "_", "?", "#", ...) or a maximal word *)
(* of characters from [a-zA-Z0-9.-] ("https", "a.json", "..").  Inputs are *)
(* canonical (no two adjacent words) and every operator below keeps them   *)
(* canonical, so equality of token sequences is equality of the strings.   *)
(***************************************************************************)
EXTENDS Integers, Sequences, FiniteSets, TLC

\* ------------------------------------------------------------------ text

\* The special characters that occur in the modelled inputs.
Specials == {"/", ":", " ", "_", "?", "#", "%", "~", "@"}

IsWord(tok) == tok \notin Specials

\* unicode.IsSpace on a token
IsSpace(tok) == tok = " "

RECURSIVE TrimLeft(_)
TrimLeft(s) ==
    IF s # <<>> /\ IsSpace(Head(s)) THEN TrimLeft(Tail(s)) ELSE s

RECURSIVE TrimRight(_)
TrimRight(s) ==
    IF s # <<>> /\ IsSpace(s[Len(s)]) THEN TrimRight(SubSeq(s, 1, Len(s) - 1)) ELSE s

\* strings.TrimSpace
TrimSpace(s) == TrimRight(TrimLeft(s))

\* strings.TrimSuffix(s, "/"): removes at most one trailing slash
TrimSuffixSlash(s) ==
    IF s # <<>> /\ s[Len(s)] = "/" THEN SubSeq(s, 1, Len(s) - 1) ELSE s

\* mutant of TrimPrefixSlash: the path is used as it is
TrimPrefixSlash_Keeps(s) == s

\* strings.TrimPrefix(s, "/"): removes at most one leading slash
TrimPrefixSlash(s) ==
    IF s # <<>> /\ Head(s) = "/" THEN Tail(s) ELSE s

\* strings.Trim(s, "_"): removes every leading and trailing underscore
RECURSIVE TrimUnderscores(_)
TrimUnderscores(s) ==
    IF s # <<>> /\ Head(s) = "_" THEN TrimUnderscores(Tail(s))
    ELSE IF s # <<>> /\ s[Len(s)] = "_" THEN TrimUnderscores(SubSeq(s, 1, Len(s) - 1))
    ELSE s

\* index of the first token of s that is in set S, or 0
RECURSIVE FirstIn(_, _, _)
FirstIn(s, S, i) ==
    IF i > Len(s) THEN 0
    ELSE IF s[i] \in S THEN i
    ELSE FirstIn(s, S, i + 1)

\* ------------------------------------------------------------------ urlToDirectoryName

\* index of the last token of s that is in set S, or 0
RECURSIVE LastIn(_, _, _)
LastIn(s, S, i) ==
    IF i < 1 THEN 0
    ELSE IF s[i] \in S THEN i
    ELSE LastIn(s, S, i - 1)

\* a word that can be a URL scheme (it starts with a letter), and a word of
\* digits
SchemeWord(tok) == IsWord(tok) /\ tok \notin {".", "..", "80"}
DigitWord(tok) == tok = "80"

\* the one element of a set of one element
Only(S) == CHOOSE x \in S : TRUE

\* s up to the first of its tokens that is in S
CutAt(s, S) ==
    LET at == FirstIn(s, S, 1)
    IN  IF at = 0 THEN s ELSE SubSeq(s, 1, at - 1)

\* url.Parse: the scheme is taken off a URL without fragment, then the query
SplitScheme(noFrag) ==
    IF Len(noFrag) >= 2 /\ SchemeWord(noFrag[1]) /\ noFrag[2] = ":"
    THEN [hasSch |-> TRUE, noQuery |-> CutAt(SubSeq(noFrag, 3, Len(noFrag)), {"?"})]
    ELSE [hasSch |-> FALSE, noQuery |-> CutAt(noFrag, {"?"})]

\* url.Parse: what is left is opaque (a scheme, and no "/" after it: neither
\* host nor path), or an authority after "//" and a path, or a path alone
\* ("///" opens a path when there is no scheme); a path without scheme must
\* not have a ":" in its first segment
SplitAuthority(hasSch, noQuery) ==
    LET rooted   == noQuery # <<>> /\ noQuery[1] = "/"
        opaque   == hasSch /\ ~rooted
        three    == Len(noQuery) >= 3 /\ noQuery[2] = "/" /\ noQuery[3] = "/"
        hasAuth  == rooted /\ Len(noQuery) >= 2 /\ noQuery[2] = "/" /\ (hasSch \/ ~three)
        afterSl  == IF hasAuth THEN SubSeq(noQuery, 3, Len(noQuery)) ELSE noQuery
    IN  [auth |-> IF hasAuth THEN CutAt(afterSl, {"/"}) ELSE <<>>,
         path |-> IF opaque THEN <<>>
                  ELSE IF ~hasAuth THEN noQuery
                  ELSE SubSeq(afterSl, Len(CutAt(afterSl, {"/"})) + 1, Len(afterSl)),
         err  |-> ~hasSch /\ ~rooted /\ FirstIn(CutAt(noQuery, {"/"}), {":"}, 1) # 0]

\* url.Parse: the authority loses its userinfo (all up to the last "@");
\* white space in the userinfo or the host and a port that is not a number
\* are errors
ParseAuthority(auth) ==
    LET atAt     == LastIn(auth, {"@"}, Len(auth))
        userinfo == IF atAt = 0 THEN <<>> ELSE SubSeq(auth, 1, atAt - 1)
        host     == IF atAt = 0 THEN auth ELSE SubSeq(auth, atAt + 1, Len(auth))
        port     == SubSeq(host, LastIn(host, {":"}, Len(host)) + 1, Len(host))
    IN  [host |-> host,
         err  |-> \/ FirstIn(userinfo, {" "}, 1) # 0
                  \/ FirstIn(host, {" "}, 1) # 0
                  \/ /\ LastIn(host, {":"}, Len(host)) # 0
                     /\ (Len(port) > 1 \/ (Len(port) = 1 /\ ~DigitWord(port[1])))]

\* net/url.Parse, as far as urlToDirectoryName reads it: Host, Path and the
\* error.  [scheme ":"] ["//" authority] path ["?" query] ["#" fragment];
\* a URL that starts with ":" has no scheme and is an error.
UrlParse(rawURL) ==
    Only({Only({Only({[Host |-> a.host, Path |-> r.path,
                       err  |-> (rawURL # <<>> /\ rawURL[1] = ":") \/ r.err \/ a.err]
                      : a \in {ParseAuthority(r.auth)}})
                : r \in {SplitAuthority(s.hasSch, s.noQuery)}})
          : s \in {SplitScheme(CutAt(rawURL, {"#"}))}})

\* regexp `[^a-zA-Z0-9._-]` replaced by "_": a word token holds only
\* characters of [a-zA-Z0-9.-]; every special token but "_" is replaced.
ReplaceUnsafe(s) == [i \in 1..Len(s) |-> IF IsWord(s[i]) THEN s[i] ELSE "_"]

\* regexp `_+` replaced by "_"
RECURSIVE CollapseUnderscores(_)
CollapseUnderscores(s) ==
    IF Len(s) < 2 THEN s
    ELSE IF s[1] = "_" /\ s[2] = "_" THEN CollapseUnderscores(Tail(s))
    ELSE <<s[1]>> \o CollapseUnderscores(Tail(s))

\* `u, _ := url.Parse(rawURL)` and `u.Host`: url.Parse returns a nil *URL
\* with its error, and reading a field of it is a run-time panic
urlToDirectoryNamePanics(rawURL) == UrlParse(rawURL).err

\* mutant of urlToDirectoryName: the runs of underscores are kept
urlToDirectoryName_KeepsRuns(rawURL) ==
    LET u == UrlParse(rawURL)
    IN  TrimUnderscores(ReplaceUnsafe(u.Host \o u.Path))

\* the name returned when url.Parse succeeds
urlToDirectoryName(rawURL) ==
    LET u == UrlParse(rawURL)
    IN  TrimUnderscores(CollapseUnderscores(ReplaceUnsafe(u.Host \o u.Path)))

\* ------------------------------------------------------------------ file system

\* A local path is a sequence of segments relative to the cache root
\* (cache.DetermineCachePath()); a segment is a token sequence without "/".
\* A path that starts with the segment <<"..">> lies outside the cache root.
Dot == <<".">>
DotDot == <<"..">>

\* the segments of a slash-separated text (empty segments included)
RECURSIVE SplitSlash(_)
SplitSlash(s) ==
    LET at == FirstIn(s, {"/"}, 1)
    IN  IF at = 0 THEN <<s>>
        ELSE <<SubSeq(s, 1, at - 1)>> \o SplitSlash(SubSeq(s, at + 1, Len(s)))

\* filepath.Clean on a relative path given as segments: drops empty and "."
\* segments, and lets ".." remove the segment before it (a ".." with nothing
\* before it is kept).
RECURSIVE CleanSegs(_, _)
CleanSegs(done, todo) ==
    IF todo = <<>> THEN done
    ELSE LET h == Head(todo)
         IN  IF h = <<>> \/ h = Dot THEN CleanSegs(done, Tail(todo))
             ELSE IF h = DotDot /\ done # <<>> /\ done[Len(done)] # DotDot
                  THEN CleanSegs(SubSeq(done, 1, Len(done) - 1), Tail(todo))
             ELSE CleanSegs(Append(done, h), Tail(todo))

\* filepath.Join(dir, text)
PathJoin(dir, text) == CleanSegs(<<>>, dir \o SplitSlash(text))

\* filepath.Dir
PathDir(path) == IF path = <<>> THEN <<>> ELSE SubSeq(path, 1, Len(path) - 1)

IsPrefix(p, q) == Len(p) <= Len(q) /\ SubSeq(q, 1, Len(p)) = p

\* every directory that os.MkdirAll(path) makes sure exists
Ancestors(path) == {SubSeq(path, 1, n) : n \in 1..Len(path)}

\* the fixed file names of a dataset directory
MetadataName == <<"metadata.json">>
ArchiveName == <<"archive.tar.zst">>
TarName == <<"csaf_advisories.tar">>

\* file contents
Data(v) == [kind |-> "data", v |-> v]
Truncated == [kind |-> "trunc"]

\* cache.SyncMetadata, and the content of a metadata.json that holds it
SyncMetadata(lastSync, sourceURL) ==
    [kind |-> "meta", LastSync |-> lastSync, SourceURL |-> sourceURL]

\* Go's nil *SyncMetadata
NoMeta == [kind |-> "none"]

\* time.Time{} (the zero time), what json.Unmarshal leaves in a field the
\* document does not set; the clock starts after it.
ZeroTime == 0

\* 3 * 7 * 24 * time.Hour, in seconds
ThreeWeeks == 3 * 7 * 24 * 3600

\* ------------------------------------------------------------------ bounds and inputs

\* the largest version number of a remote file's content
MaxContent == 2
\* the most rows of a change log, lines of a listing, entries of an archive
MaxRows == 2

\* the instants the clock shows, the first of them at the start: a second
\* later, three weeks later, and a second more than three weeks later
StartTime == ThreeWeeks + 10
Instants == {StartTime, StartTime + 1, StartTime + ThreeWeeks, StartTime + ThreeWeeks + 1}

\* the directory URLs given to FromDirectoryURL: UrlX and UrlXSlash name the
\* same remote directory
UrlX == <<"https", ":", "/", "/", "h", "/", "x">>
UrlXSlash == UrlX \o <<"/">>
Urls == {UrlXSlash}

\* the callers: Spec runs one invocation at a time, SpecConc two at once
SeqProcs == {"p1"}
Procs == {"p1", "p2"}

\* ------------------------------------------------------------------ state

VARIABLES
    now,      \* time.Now(), in seconds
    files,    \* the regular files on disk: local path -> content
    dirs,     \* the directories on disk (local paths)
    pc,       \* per caller: where its FromDirectoryURL invocation stands
    inv,      \* per caller: the locals of the invocation
    obs,      \* per caller: what the invocation has done so far (history)
    call      \* the latest direct call of one of the package's functions

vars == <<now, files, dirs, pc, inv, obs, call>>

\* no function has been called directly
NoCall == [fn |-> "none"]

IdleInv == [directoryURL |-> <<>>, targetPath |-> <<>>, isValid |-> FALSE,
            metadata |-> NoMeta, mode |-> "none", archiveURL |-> <<>>,
            allChanges |-> <<>>, filePaths |-> <<>>]

\* files0, dirs0: the disk when the invocation began; checkNow: the clock when
\* it checked the cache (0: not yet); requests: the URLs it has requested, in
\* order; probe: the response to its archive_latest.txt request; cleared: it
\* has removed the target directory; written: the local files it has written
\* and not removed; changedFiles: its changed-file set; saveNow: the clock when
\* it saved the metadata (0: not yet); err: why it failed; archiveStatus,
\* fileStatus: the status of the response to its archive request and to its
\* latest file request (0: no response); index: whether the index.txt it
\* received had a line that is not white space ("paths") or none ("blank")
NoResponse == [err |-> "none", status |-> 0]
IdleObs == [files0 |-> <<>>, dirs0 |-> {}, checkNow |-> 0,
            requests |-> <<>>, probe |-> NoResponse, cleared |-> FALSE,
            written |-> {}, changedFiles |-> {}, saveNow |-> 0,
            archiveStatus |-> 0, fileStatus |-> 0, index |-> "none",
            err |-> "none"]

Init ==
    /\ now = StartTime
    /\ files = <<>>
    /\ dirs = {}
    /\ pc = [p \in Procs |-> "idle"]
    /\ inv = [p \in Procs |-> IdleInv]
    /\ obs = [p \in Procs |-> IdleObs]
    /\ call = NoCall

\* ------------------------------------------------------------------ file system operations

\* the function f without the keys in S
Without(f, S) == [k \in (DOMAIN f) \ S |-> f[k]]

\* the function f with key k set to v
With(f, k, v) == [x \in (DOMAIN f) \cup {k} |-> IF x = k THEN v ELSE f[x]]

FilesUnder(path) == {f \in DOMAIN files : IsPrefix(path, f)}
DirsUnder(path) == {d \in dirs : IsPrefix(path, d)}

\* mutant of RemoveAllFiles: os.Remove of the metadata file alone
RemoveAllFiles_MetadataOnly(path) == Without(files, {Append(path, MetadataName)})

\* os.RemoveAll(path): the files left when it succeeds
RemoveAllFiles(path) == Without(files, FilesUnder(path))
RemoveAllDirs(path) == dirs \ DirsUnder(path)

\* os.MkdirAll(path): the directories afterwards
MkdirAll(path) == dirs \cup Ancestors(path)

\* ------------------------------------------------------------------ metadata store

\* json.Unmarshal into SyncMetadata: a JSON object without the two fields
\* (an advisory document) leaves them zero; anything else is an error.
JsonUnmarshalMetadata(content) ==
    IF content.kind = "meta"
    THEN [ok |-> TRUE, metadata |-> SyncMetadata(content.LastSync, content.SourceURL)]
    ELSE IF content.kind = "data"
    THEN [ok |-> TRUE, metadata |-> SyncMetadata(ZeroTime, <<>>)]
    ELSE [ok |-> FALSE, metadata |-> NoMeta]

\* mutant of LoadSyncMetadata: a record that cannot be decoded counts as absent
LoadSyncMetadata_UndecodableAbsent(cacheDir) ==
    LET metadataPath == Append(cacheDir, MetadataName)
    IN  IF metadataPath \notin DOMAIN files
        THEN [metadata |-> NoMeta, err |-> FALSE]
        ELSE LET r == JsonUnmarshalMetadata(files[metadataPath])
             IN  [metadata |-> r.metadata, err |-> FALSE]

\* LoadSyncMetadata(cacheDir): (metadata, err); metadata NoMeta is Go's nil
LoadSyncMetadata(cacheDir) ==
    LET metadataPath == Append(cacheDir, MetadataName)
    IN  IF metadataPath \notin DOMAIN files
        THEN [metadata |-> NoMeta, err |-> FALSE]
        ELSE LET r == JsonUnmarshalMetadata(files[metadataPath])
             IN  [metadata |-> r.metadata, err |-> ~r.ok]

\* mutants of IsStale: `!After` in place of `Before`; two weeks for three
IsStale_Inclusive(lastSync, t) == lastSync <= t - ThreeWeeks
IsStale_TwoWeeks(lastSync, t) == lastSync < t - 2 * 7 * 24 * 3600

\* metadata.LastSync.Before(time.Now().Add(-3 * 7 * 24 * time.Hour))
IsStale(lastSync, t) == lastSync < t - ThreeWeeks

\* mutant of IsValidCache: an expired record is not returned
IsValidCache_StaleAbsent(cacheDir) ==
    LET l == LoadSyncMetadata(cacheDir)
    IN  IF l.err THEN [valid |-> FALSE, metadata |-> NoMeta, err |-> TRUE]
        ELSE IF l.metadata.kind = "none" THEN [valid |-> FALSE, metadata |-> NoMeta, err |-> FALSE]
        ELSE IF IsStale(l.metadata.LastSync, now)
             THEN [valid |-> FALSE, metadata |-> NoMeta, err |-> FALSE]
        ELSE [valid |-> TRUE, metadata |-> l.metadata, err |-> FALSE]

\* IsValidCache(cacheDir): (valid, metadata, err)
IsValidCache(cacheDir) ==
    LET l == LoadSyncMetadata(cacheDir)
    IN  IF l.err THEN [valid |-> FALSE, metadata |-> NoMeta, err |-> TRUE]
        ELSE IF l.metadata.kind = "none" THEN [valid |-> FALSE, metadata |-> NoMeta, err |-> FALSE]
        ELSE IF IsStale(l.metadata.LastSync, now)
             THEN [valid |-> FALSE, metadata |-> l.metadata, err |-> FALSE]
        ELSE [valid |-> TRUE, metadata |-> l.metadata, err |-> FALSE]

\* ------------------------------------------------------------------ FromDirectoryURL

Fail(p, why) ==
    /\ pc' = [pc EXCEPT ![p] = "failed"]
    /\ obs' = [obs EXCEPT ![p].err = why]

\* mutant of TargetPath: the directory is named after the host alone
TargetPath_OfHost(directoryURL) ==
    <<TrimUnderscores(CollapseUnderscores(ReplaceUnsafe(UrlParse(directoryURL).Host)))>>

\* `dirName := urlToDirectoryName(directoryURL)` and
\* `targetPath := filepath.Join(cachePath, dirName)` (lines 267-268)
TargetPath(directoryURL) == <<urlToDirectoryName(directoryURL)>>

\* a caller invokes FromDirectoryURL(directoryURL): cache.EnsureCachePath()
\* and urlToDirectoryName (lines 262-268)
BeginWith(p, directoryURL, ioOK) ==
    /\ inv' = [inv EXCEPT ![p] = [IdleInv EXCEPT !.directoryURL = directoryURL,
                                    !.targetPath = TargetPath(directoryURL)]]
    /\ obs' = [obs EXCEPT ![p] = [IdleObs EXCEPT !.files0 = files,
                                    !.dirs0 = dirs,
                                    !.err = IF ioOK THEN "none" ELSE "ensure cache path"]]
    /\ pc' = [pc EXCEPT ![p] = IF ioOK THEN "mkdir" ELSE "failed"]

Begin(p) ==
    /\ pc[p] = "idle"
    /\ \E u \in Urls, ioOK \in BOOLEAN : BeginWith(p, u, ioOK)
    /\ UNCHANGED <<now, files, dirs, call>>

\* os.MkdirAll(targetPath) (lines 270-272)
MkdirTarget(p) ==
    /\ pc[p] = "mkdir"
    /\ \/ /\ dirs' = MkdirAll(inv[p].targetPath)
          /\ pc' = [pc EXCEPT ![p] = "check"]
          /\ UNCHANGED obs
       \/ /\ Fail(p, "create target directory")
          /\ UNCHANGED dirs
    /\ UNCHANGED <<now, files, inv, call>>

\* mutant of SelectStrategy: `if metadata != nil`
SelectStrategy_AnyRecord(isValid, metadata) ==
    IF metadata.kind # "none" THEN "incremental" ELSE "full"

\* `if isValid && metadata != nil` (line 280): the strategy
SelectStrategy(isValid, metadata) ==
    IF isValid /\ metadata.kind # "none" THEN "incremental" ELSE "full"

\* cache.IsValidCache(targetPath) and the choice of strategy (lines 275-309)
CheckCache(p) ==
    /\ pc[p] = "check"
    /\ LET r == IsValidCache(inv[p].targetPath)
       IN  IF r.err
           THEN /\ Fail(p, "check cache validity")
                /\ UNCHANGED inv
           ELSE /\ inv' = [inv EXCEPT ![p].isValid = r.valid, ![p].metadata = r.metadata,
                                      ![p].mode = SelectStrategy(r.valid, r.metadata)]
                /\ pc' = [pc EXCEPT ![p] =
                             IF SelectStrategy(r.valid, r.metadata) = "incremental"
                             THEN "changes" ELSE "clear"]
                /\ obs' = [obs EXCEPT ![p].checkNow = now]
    /\ UNCHANGED <<now, files, dirs, call>>

\* the invocation has returned; the caller may invoke again
Return(p) ==
    /\ pc[p] \in {"done", "failed"}
    /\ pc' = [pc EXCEPT ![p] = "idle"]
    /\ inv' = [inv EXCEPT ![p] = IdleInv]
    /\ obs' = [obs EXCEPT ![p] = IdleObs]
    /\ UNCHANGED <<now, files, dirs, call>>

\* time passes
Tick ==
    /\ \E t \in Instants : t > now /\ now' = t
    /\ UNCHANGED <<files, dirs, pc, inv, obs, call>>

\* ------------------------------------------------------------------ HTTP

StatusOK == 200
StatusNotFound == 404
StatusServerError == 500
Statuses == {StatusOK, StatusNotFound, StatusServerError}

\* what a response other than 200 carries instead of the resource
ErrorPage == [kind |-> "garbage"]

\* what http.Get and reading the body can give: a transport failure before
\* the response ("connect") or while its body is read ("read"), or a status
\* and a body; only a 200 carries one of the bodies of the resource
Responses(bodies) ==
    {[err |-> "connect", status |-> 0, body |-> ErrorPage]}
    \cup {[err |-> "read", status |-> st, body |-> ErrorPage] : st \in Statuses}
    \cup {[err |-> "none", status |-> st, body |-> ErrorPage] : st \in Statuses \ {StatusOK}}
    \cup {[err |-> "none", status |-> StatusOK, body |-> b] : b \in bodies}

\* mutant of fetchResource: allowNotFound is not looked at
fetchResource_NotFoundIsError(resp, allowNotFound) ==
    IF resp.err = "connect"
    THEN [data |-> <<>>, notFound |-> FALSE, err |-> TRUE]
    ELSE IF resp.status # StatusOK
    THEN [data |-> <<>>, notFound |-> FALSE, err |-> TRUE]
    ELSE IF resp.err = "read"
    THEN [data |-> <<>>, notFound |-> FALSE, err |-> TRUE]
    ELSE [data |-> resp.body, notFound |-> FALSE, err |-> FALSE]

\* fetchResource(url, allowNotFound) on response resp: (data, notFound, err)
fetchResource(resp, allowNotFound) ==
    IF resp.err = "connect"
    THEN [data |-> <<>>, notFound |-> FALSE, err |-> TRUE]
    ELSE IF resp.status = StatusNotFound /\ allowNotFound
    THEN [data |-> <<>>, notFound |-> TRUE, err |-> FALSE]
    ELSE IF resp.status # StatusOK
    THEN [data |-> <<>>, notFound |-> FALSE, err |-> TRUE]
    ELSE IF resp.err = "read"
    THEN [data |-> <<>>, notFound |-> FALSE, err |-> TRUE]
    ELSE [data |-> resp.body, notFound |-> FALSE, err |-> FALSE]

\* strings.TrimSuffix(directoryURL, "/") + "/" + name
ResourceURL(directoryURL, name) == TrimSuffixSlash(directoryURL) \o <<"/">> \o name

Request(p, u) == [obs EXCEPT ![p].requests = Append(@, u)]

\* ------------------------------------------------------------------ change log

\* time.Parse(time.RFC3339, s): a timestamp column is modelled by the second
\* it names, or by BadTime when it is not RFC 3339
BadTime == -1

\* mutant of ParseTime: every timestamp column is accepted
ParseTime_Lenient(s) == [ok |-> TRUE, t |-> s]

ParseTime(s) == [ok |-> s # BadTime, t |-> s]

\* the errors of ParseChangesCSV: none; the CSV reader's (line 119); a
\* timestamp's, which names the value (line 138)
NoError == [kind |-> "none"]
CsvError == [kind |-> "csv"]
TimestampError(timestampStr) == [kind |-> "timestamp", value |-> timestampStr]

\* csv.Reader.ReadAll: the document is given as its lines, each line as its
\* fields.  Empty lines are dropped; with FieldsPerRecord = 0 every record
\* must have as many fields as the first one.
CsvReadAll(data) ==
    LET records == SelectSeq(data, LAMBDA r : r # <<>>)
    IN  IF \E i \in 1..Len(records) : Len(records[i]) # Len(records[1])
        THEN [records |-> <<>>, err |-> TRUE]
        ELSE [records |-> records, err |-> FALSE]

\* mutant of SetChange: a path keeps its first timestamp
SetChange_KeepFirst(changes, filePath, timestamp) ==
    IF filePath \in DOMAIN changes THEN changes ELSE With(changes, filePath, timestamp)

\* changes[filePath] = timestamp (line 140)
SetChange(changes, filePath, timestamp) == With(changes, filePath, timestamp)

\* the loop of ParseChangesCSV over records (lines 123-141)
RECURSIVE ParseRecords(_, _)
ParseRecords(records, changes) ==
    IF records = <<>> THEN [changes |-> changes, err |-> FALSE, msg |-> NoError]
    ELSE LET record == Head(records)
         IN  IF Len(record) = 0 \/ (Len(record) = 1 /\ TrimSpace(record[1]) = <<>>)
             THEN ParseRecords(Tail(records), changes)
             ELSE IF Len(record) < 2
             THEN ParseRecords(Tail(records), changes)
             ELSE LET ts == ParseTime(record[2])
                  IN  IF ~ts.ok
                      THEN [changes |-> <<>>, err |-> TRUE, msg |-> TimestampError(record[2])]
                      ELSE ParseRecords(Tail(records), SetChange(changes, record[1], ts.t))

\* ParseChangesCSV(data): (changes, err), changes a map path -> timestamp
ParseChangesCSV(data) ==
    LET r == CsvReadAll(data)
    IN  IF r.err THEN [changes |-> <<>>, err |-> TRUE, msg |-> CsvError]
        ELSE ParseRecords(r.records, <<>>)

\* mutant of After: `!timestamp.Before(lastSync)`
After_OrEqual(t, u) == t >= u

\* timestamp.After(lastSync)
After(t, u) == t > u

\* mutant of ChangedFiles: every entry of the change log counts as changed
ChangedFiles_All(allChanges, lastSync) == DOMAIN allChanges

\* the filter of PerformIncrementalUpdate (lines 220-225)
ChangedFiles(allChanges, lastSync) ==
    {filePath \in DOMAIN allChanges : After(allChanges[filePath], lastSync)}

\* the orders in which a Go map range can yield the elements of S
Orders(S) ==
    {o \in [1..Cardinality(S) -> S] : \A i, j \in 1..Cardinality(S) : o[i] = o[j] => i = j}

\* ------------------------------------------------------------------ what the remote can serve

SeqsUpTo(S, n) == UNION {[1..k -> S] : k \in 0..n}

PathA == <<"a.json">>
PathB == <<"b.json">>
BlankPath == <<" ">>
RemotePaths == {PathA, PathB, BlankPath}

\* the timestamps a change log can carry: before, at and after the first
\* value of the clock
Stamps == {StartTime - 1, StartTime, StartTime + 1}

\* changes.csv: a line is empty, has one column or has two
ChangeLines ==
    {<<>>} \cup {<<f>> : f \in {PathA, BlankPath}}
           \cup {<<f, t>> : f \in RemotePaths, t \in Stamps \cup {BadTime}}
ChangeLogs == SeqsUpTo(ChangeLines, MaxRows)

\* a remote file
FileBodies == {Data(v) : v \in 1..MaxContent}

\* ------------------------------------------------------------------ listing fetch

\* mutant of SkipPath: `if filePath == ""`
SkipPath_EmptyOnly(filePath) == filePath = <<>>

\* `if strings.TrimSpace(filePath) == "" { continue }` (lines 155-157)
SkipPath(filePath) == TrimSpace(filePath) = <<>>

\* mutant of BadFileStatus: a 404 is let through
BadFileStatus_NotFoundAccepted(status) == status \notin {StatusOK, StatusNotFound}

\* `if resp.StatusCode != http.StatusOK` (line 177)
BadFileStatus(status) == status # StatusOK

\* one pass of the loop of IndividualFiles(baseURL, filePaths, targetDir)
\* (lines 154-197) over the first of the remaining paths: how it ends
IndividualFilesOutcome(p, resp) ==
    LET filePath  == Head(inv[p].filePaths)
        localPath == PathJoin(inv[p].targetPath, filePath)
    IN  IF SkipPath(filePath) THEN "skip"
        ELSE IF \E d \in Ancestors(PathDir(localPath)) : d \in DOMAIN files
        THEN "create directory"
        ELSE IF resp.err = "connect" \/ BadFileStatus(resp.status) THEN "download"
        ELSE IF localPath \in MkdirAll(PathDir(localPath)) THEN "create file"
        ELSE IF resp.err = "read" THEN "save file"
        ELSE "ok"

\* strings.TrimSuffix(baseURL, "/") + "/" + strings.TrimPrefix(filePath, "/")
FileURL(baseURL, filePath) ==
    TrimSuffixSlash(baseURL) \o <<"/">> \o TrimPrefixSlash(filePath)

\* mutant of AfterFileError: the loop tries the same path again
AfterFileError_Retries == "files"

\* the `return fmt.Errorf(...)` of the loop (lines 166-191): where a pass
\* that fails leaves the invocation
AfterFileError == "failed"

IndividualFilesStep(p, resp) ==
    LET filePath  == Head(inv[p].filePaths)
        rest      == Tail(inv[p].filePaths)
        fileURL   == FileURL(inv[p].directoryURL, filePath)
        localPath == PathJoin(inv[p].targetPath, filePath)
        outcome   == IndividualFilesOutcome(p, resp)
        goesOn    == outcome \in {"skip", "ok"}
    IN  /\ dirs' = IF outcome \in {"skip", "create directory"} THEN dirs
                   ELSE MkdirAll(PathDir(localPath))
        /\ files' = IF outcome = "ok" THEN With(files, localPath, resp.body)
                    ELSE IF outcome = "save file" THEN With(files, localPath, Truncated)
                    ELSE files
        /\ pc' = [pc EXCEPT ![p] = IF ~goesOn THEN AfterFileError
                                    ELSE IF rest = <<>> THEN "save" ELSE "files"]
        /\ inv' = [inv EXCEPT ![p].filePaths = IF goesOn THEN rest ELSE @]
        /\ obs' = [obs EXCEPT
                     ![p].err = IF goesOn THEN @ ELSE outcome,
                     ![p].requests = IF outcome \in {"skip", "create directory"} THEN @
                                     ELSE Append(@, fileURL),
                     ![p].fileStatus = IF outcome \in {"skip", "create directory"} THEN @
                                       ELSE resp.status,
                     ![p].written = IF outcome \in {"ok", "save file"} THEN @ \cup {localPath}
                                    ELSE @]

IndividualFiles(p) ==
    /\ pc[p] = "files"
    /\ \E resp \in Responses(FileBodies) : IndividualFilesStep(p, resp)
    /\ UNCHANGED <<now, call>>

\* ------------------------------------------------------------------ incremental update

\* PerformIncrementalUpdate(directoryURL, targetDir, lastSync): fetching and
\* parsing changes.csv (lines 203-217)
\* mutant of IncrementalUpdateFailed: the error is logged and the full
\* download below is run
IncrementalUpdateFailed_FallsBack == "clear"

\* mutant of AfterFilter: FromDirectoryURL returns early when nothing changed
AfterFilter_SkipsSave(changedFiles) == IF changedFiles = {} THEN "done" ELSE "files"

\* mutant of AfterFilter: a changed-file set that is not empty sets off the
\* full download
AfterFilter_Clears(changedFiles) == IF changedFiles = {} THEN "save" ELSE "clear"

\* `if err != nil { return "", ... "incremental update failed" }`
\* (lines 286-288): where a failed PerformIncrementalUpdate leaves the caller
IncrementalUpdateFailed == "failed"

\* the return of PerformIncrementalUpdate when nothing has changed, and the
\* call of IndividualFiles otherwise (lines 227-235): where the caller goes on
AfterFilter(changedFiles) == IF changedFiles = {} THEN "save" ELSE "files"

FetchChangesOn(p, resp) ==
    LET changesURL == ResourceURL(inv[p].directoryURL, <<"changes.csv">>)
        r          == fetchResource(resp, FALSE)
        parsed     == ParseChangesCSV(r.data)
    IN  IF r.err
        THEN /\ pc' = [pc EXCEPT ![p] = IncrementalUpdateFailed]
             /\ obs' = [obs EXCEPT ![p].err = "get changes.csv",
                                   ![p].requests = Append(@, changesURL)]
             /\ UNCHANGED inv
        ELSE IF parsed.err
        THEN /\ pc' = [pc EXCEPT ![p] = IncrementalUpdateFailed]
             /\ obs' = [obs EXCEPT ![p].err = "parse changes.csv",
                                   ![p].requests = Append(@, changesURL)]
             /\ UNCHANGED inv
        ELSE /\ obs' = Request(p, changesURL)
             /\ inv' = [inv EXCEPT ![p].allChanges = parsed.changes]
             /\ pc' = [pc EXCEPT ![p] = "filter"]

FetchChanges(p) ==
    /\ pc[p] = "changes"
    /\ \E resp \in Responses(ChangeLogs) : FetchChangesOn(p, resp)
    /\ UNCHANGED <<now, files, dirs, call>>

\* PerformIncrementalUpdate: the filter over allChanges, whose order is the
\* order of a map range, and the return when nothing has changed
\* (lines 219-235)
FilterChanges(p) ==
    /\ pc[p] = "filter"
    /\ LET changed == ChangedFiles(inv[p].allChanges, inv[p].metadata.LastSync)
       IN  /\ \E order \in Orders(changed) :
                 inv' = [inv EXCEPT ![p].filePaths = order, ![p].allChanges = <<>>]
           /\ obs' = [obs EXCEPT ![p].changedFiles = changed]
           /\ pc' = [pc EXCEPT ![p] = AfterFilter(changed)]
    /\ UNCHANGED <<now, files, dirs, call>>

\* ------------------------------------------------------------------ full download

\* os.RemoveAll(targetPath) (lines 311-314): on failure any part of the tree
\* may already be gone
ClearTarget(p) ==
    /\ pc[p] = "clear"
    /\ \/ /\ files' = RemoveAllFiles(inv[p].targetPath)
          /\ dirs' = RemoveAllDirs(inv[p].targetPath)
          /\ pc' = [pc EXCEPT ![p] = "recreate"]
          /\ obs' = [obs EXCEPT ![p].cleared = TRUE]
       \/ /\ \E gone \in SUBSET FilesUnder(inv[p].targetPath) : files' = Without(files, gone)
          /\ pc' = [pc EXCEPT ![p] = "failed"]
          /\ obs' = [obs EXCEPT ![p].err = "clear cache directory"]
          /\ UNCHANGED dirs
    /\ UNCHANGED <<now, inv, call>>

\* os.MkdirAll(targetPath) (lines 316-319)
RecreateTarget(p) ==
    /\ pc[p] = "recreate"
    /\ \/ /\ dirs' = MkdirAll(inv[p].targetPath)
          /\ pc' = [pc EXCEPT ![p] = "probe"]
          /\ UNCHANGED obs
       \/ /\ Fail(p, "recreate target directory")
          /\ UNCHANGED dirs
    /\ UNCHANGED <<now, files, inv, call>>

\* archive_latest.txt: the name of the archive, with or without the newline
\* after it, or nothing but white space
ArchiveFile == <<"csaf.tar.zst">>
PointerBodies == {ArchiveFile, ArchiveFile \o <<" ">>, <<>>, <<" ">>}

\* the probe for archive_latest.txt (lines 321-333)
ProbeArchiveOn(p, resp) ==
    LET archiveLatestURL == ResourceURL(inv[p].directoryURL, <<"archive_latest.txt">>)
        r                == fetchResource(resp, TRUE)
        archiveURL       == IF r.notFound THEN <<>>
                            ELSE ResourceURL(inv[p].directoryURL, TrimSpace(r.data))
    IN  IF ~r.notFound /\ r.err
        THEN /\ pc' = [pc EXCEPT ![p] = "failed"]
             /\ obs' = [obs EXCEPT ![p].err = "fetch archive_latest.txt",
                                   ![p].probe = [err |-> resp.err, status |-> resp.status],
                                   ![p].requests = Append(@, archiveLatestURL)]
             /\ UNCHANGED inv
        ELSE /\ inv' = [inv EXCEPT ![p].archiveURL = archiveURL,
                                   ![p].mode = IF archiveURL # <<>> THEN "bulk" ELSE "listing"]
             /\ pc' = [pc EXCEPT ![p] = IF archiveURL # <<>> THEN "archive" ELSE "index"]
             /\ obs' = [obs EXCEPT ![p].probe = [err |-> resp.err, status |-> resp.status],
                                   ![p].requests = Append(@, archiveLatestURL)]

ProbeArchive(p) ==
    /\ pc[p] = "probe"
    /\ \E resp \in Responses(PointerBodies) : ProbeArchiveOn(p, resp)
    /\ UNCHANGED <<now, files, dirs, call>>

\* what the archive URL can serve: something that is no zstd stream, a zstd
\* stream that is no tar file, or a zstd-compressed tar file with entries
Garbage == ErrorPage
Zst(tarOK, entries) == [kind |-> "zst", tarOK |-> tarOK, entries |-> entries]
TarEntries == UNION {[S -> FileBodies] : S \in SUBSET {PathA, PathB}}
ArchiveBodies == {Garbage, Zst(FALSE, <<>>)} \cup {Zst(TRUE, e) : e \in TarEntries}

\* GetCSAFArchive(url, destination) (lines 23-45): the status is not looked at
GetCSAFArchiveOn(p, resp) ==
    LET destination == Append(inv[p].targetPath, ArchiveName)
    IN  IF resp.err = "connect"
        THEN /\ pc' = [pc EXCEPT ![p] = "failed"]
             /\ obs' = [obs EXCEPT ![p].err = "archive file",
                                   ![p].requests = Append(@, inv[p].archiveURL)]
             /\ UNCHANGED files
        ELSE IF inv[p].targetPath \notin dirs \/ destination \in dirs
        THEN /\ pc' = [pc EXCEPT ![p] = "failed"]
             /\ obs' = [obs EXCEPT ![p].err = "create file",
                                   ![p].archiveStatus = resp.status,
                                   ![p].requests = Append(@, inv[p].archiveURL)]
             /\ UNCHANGED files
        ELSE IF resp.err = "read"
        THEN /\ files' = With(files, destination, Truncated)
             /\ pc' = [pc EXCEPT ![p] = "failed"]
             /\ obs' = [obs EXCEPT ![p].err = "save file",
                                   ![p].archiveStatus = resp.status,
                                   ![p].requests = Append(@, inv[p].archiveURL),
                                   ![p].written = @ \cup {destination}]
        ELSE /\ files' = With(files, destination, resp.body)
             /\ pc' = [pc EXCEPT ![p] = "extract"]
             /\ obs' = [obs EXCEPT ![p].requests = Append(@, inv[p].archiveURL),
                                   ![p].archiveStatus = resp.status,
                                   ![p].written = @ \cup {destination}]

GetCSAFArchive(p) ==
    /\ pc[p] = "archive"
    /\ \E resp \in Responses(ArchiveBodies) : GetCSAFArchiveOn(p, resp)
    /\ UNCHANGED <<now, dirs, inv, call>>

\* mutant of ExtractCleanup: the compressed archive is kept
ExtractCleanup_KeepsArchive(tarPath, archivePath) == {tarPath}

\* os.Remove(tarPath) (line 85) and os.Remove(archivePath) (line 346): the
\* files removed after a successful extraction
ExtractCleanup(tarPath, archivePath) == {tarPath, archivePath}

\* ExtractCSAFArchive(archivePath, destination) and the os.Remove(archivePath)
\* after it (lines 47-89, 341-346).  archiver's Tar does not overwrite an
\* existing file: an entry that meets one ends the extraction with an error,
\* after any of the other entries.
ExtractCSAFArchiveOn(p) ==
    LET destination == inv[p].targetPath
        archivePath == Append(destination, ArchiveName)
        tarPath     == Append(destination, TarName)
        archive     == files[archivePath]
        entries     == archive.entries
        local(e)    == PathJoin(destination, e)
        unpacked(E) == [f \in DOMAIN files \cup {local(e) : e \in E} |->
                          IF \E e \in E : local(e) = f
                          THEN entries[CHOOSE e \in E : local(e) = f]
                          ELSE files[f]]
        clash       == {e \in DOMAIN entries : local(e) \in (DOMAIN files \cup dirs) \ {tarPath}}
    IN  IF archivePath \notin DOMAIN files
        THEN /\ Fail(p, "open archive")
             /\ UNCHANGED files
        ELSE IF destination \notin dirs \/ tarPath \in dirs
        THEN /\ Fail(p, "create tar file")
             /\ UNCHANGED files
        ELSE IF archive.kind # "zst"
        THEN /\ files' = With(files, tarPath, Truncated)
             /\ pc' = [pc EXCEPT ![p] = "failed"]
             /\ obs' = [obs EXCEPT ![p].err = "decompress archive",
                                   ![p].written = @ \cup {tarPath}]
        ELSE IF ~archive.tarOK
        THEN /\ files' = With(files, tarPath, [kind |-> "tar"])
             /\ pc' = [pc EXCEPT ![p] = "failed"]
             /\ obs' = [obs EXCEPT ![p].err = "extract tar archive",
                                   ![p].written = @ \cup {tarPath}]
        ELSE IF clash # {}
        THEN /\ \E E \in SUBSET ((DOMAIN entries) \ clash) :
                   /\ files' = With(unpacked(E), tarPath, [kind |-> "tar"])
                   /\ obs' = [obs EXCEPT ![p].err = "extract tar archive",
                                         ![p].written = @ \cup {tarPath} \cup {local(e) : e \in E}]
             /\ pc' = [pc EXCEPT ![p] = "failed"]
        ELSE /\ files' = Without(With(unpacked(DOMAIN entries), tarPath, [kind |-> "tar"]),
                                 ExtractCleanup(tarPath, archivePath))
             /\ pc' = [pc EXCEPT ![p] = "save"]
             /\ obs' = [obs EXCEPT ![p].written =
                           (@ \cup {tarPath} \cup {local(e) : e \in DOMAIN entries})
                              \ ExtractCleanup(tarPath, archivePath)]

ExtractCSAFArchive(p) ==
    /\ pc[p] = "extract"
    /\ ExtractCSAFArchiveOn(p)
    /\ UNCHANGED <<now, dirs, inv, call>>

\* index.txt, line by line: a path, a path with a carriage return after it,
\* an empty line, a line of white space
IndexLines == {PathA, PathB, PathA \o <<" ">>, <<>>, BlankPath}
Listings == SeqsUpTo(IndexLines, MaxRows)

\* mutant of ListedFiles: the lines are not trimmed
ListedFiles_Untrimmed(lines) == SelectSeq(lines, LAMBDA line : line # <<>>)

\* the trimmed non-blank lines of index.txt, in order (lines 356-363)
RECURSIVE ListedFiles(_)
ListedFiles(lines) ==
    IF lines = <<>> THEN <<>>
    ELSE LET line == TrimSpace(Head(lines))
         IN  IF line # <<>> THEN <<line>> \o ListedFiles(Tail(lines))
             ELSE ListedFiles(Tail(lines))

\* what the index.txt received holds: a line that is not white space, or none
IndexKind(lines) ==
    IF \E i \in 1..Len(lines) : \E j \in 1..Len(lines[i]) : lines[i][j] # " "
    THEN "paths" ELSE "blank"

\* the listing path, up to the call of IndividualFiles (lines 348-372)
FetchIndexOn(p, resp) ==
    LET indexURL == ResourceURL(inv[p].directoryURL, <<"index.txt">>)
        r        == fetchResource(resp, FALSE)
        listed   == ListedFiles(r.data)
    IN  IF r.err
        THEN /\ pc' = [pc EXCEPT ![p] = "failed"]
             /\ obs' = [obs EXCEPT ![p].err = "fetch index.txt",
                                   ![p].requests = Append(@, indexURL)]
             /\ UNCHANGED inv
        ELSE IF Len(listed) = 0
        THEN /\ pc' = [pc EXCEPT ![p] = "failed"]
             /\ obs' = [obs EXCEPT ![p].err = "no files found in index.txt",
                                   ![p].index = IndexKind(r.data),
                                   ![p].requests = Append(@, indexURL)]
             /\ UNCHANGED inv
        ELSE /\ inv' = [inv EXCEPT ![p].filePaths = listed]
             /\ pc' = [pc EXCEPT ![p] = "files"]
             /\ obs' = [obs EXCEPT ![p].index = IndexKind(r.data),
                                   ![p].requests = Append(@, indexURL)]

FetchIndex(p) ==
    /\ pc[p] = "index"
    /\ \E resp \in Responses(Listings) : FetchIndexOn(p, resp)
    /\ UNCHANGED <<now, files, dirs, call>>

\* ------------------------------------------------------------------ saving the metadata

\* mutant of SaveSyncMetadata: a record already on disk is kept
SaveSyncMetadata_KeepsExisting(cacheDir, metadata) ==
    IF Append(cacheDir, MetadataName) \in DOMAIN files THEN files
    ELSE With(files, Append(cacheDir, MetadataName), metadata)

\* cache.SaveSyncMetadata(cacheDir, metadata): the files after os.WriteFile
\* has written metadata.json
SaveSyncMetadata(cacheDir, metadata) ==
    With(files, Append(cacheDir, MetadataName), metadata)

\* the end of both paths of FromDirectoryURL (lines 290-300, 375-385).  A
\* failed os.WriteFile has either not touched the file or left it truncated.
SaveMetadata(p) ==
    /\ pc[p] = "save"
    /\ LET metadataPath == Append(inv[p].targetPath, MetadataName)
           newMetadata  == SyncMetadata(now, inv[p].directoryURL)
       IN  \/ /\ inv[p].targetPath \in dirs
              /\ metadataPath \notin dirs
              /\ files' = SaveSyncMetadata(inv[p].targetPath, newMetadata)
              /\ pc' = [pc EXCEPT ![p] = "done"]
              /\ obs' = [obs EXCEPT ![p].saveNow = now]
           \/ /\ Fail(p, "save sync metadata")
              /\ UNCHANGED files
           \/ /\ inv[p].targetPath \in dirs
              /\ metadataPath \notin dirs
              /\ Fail(p, "save sync metadata")
              /\ files' = With(files, metadataPath, Truncated)
    /\ UNCHANGED <<now, dirs, inv, call>>

\* ------------------------------------------------------------------ specification

FromDirectoryURL(p) ==
    \/ Begin(p)
    \/ MkdirTarget(p)
    \/ CheckCache(p)
    \/ FetchChanges(p)
    \/ FilterChanges(p)
    \/ IndividualFiles(p)
    \/ ClearTarget(p)
    \/ RecreateTarget(p)
    \/ ProbeArchive(p)
    \/ GetCSAFArchive(p)
    \/ ExtractCSAFArchive(p)
    \/ FetchIndex(p)
    \/ SaveMetadata(p)
    \/ Return(p)

Next == Tick \/ \E p \in SeqProcs : FromDirectoryURL(p)

Spec == Init /\ [][Next]_vars

\* ------------------------------------------------------------------ direct calls

\* the longest text after the prefix of a URL given to urlToDirectoryName, and
\* the most slashes at the end of a base URL and at the start of a file path
MaxUrlLen == 4
MaxSlashes == 2

\* the URLs given to urlToDirectoryName: nothing, a scheme, a scheme and "//",
\* or "//", and then any text of the tokens below
UrlTokens == {"h", "/", "_", " ", "?", "#", "@", ":", "~"}
UrlPrefixes == {<<>>, <<"https", ":">>, <<"https", ":", "/", "/">>, <<"/", "/">>}
Canonical(s) == \A i \in 1..(Len(s) - 1) : ~(IsWord(s[i]) /\ IsWord(s[i + 1]))

Slashes(n) == [i \in 1..n |-> "/"]
BaseURLs == {UrlX \o Slashes(n) : n \in 0..MaxSlashes}
FilePaths == {Slashes(n) \o PathA : n \in 0..MaxSlashes}

\* the documents given to ParseChangesCSV: the change logs, and those with a
\* line of three columns
CsvLines == ChangeLines \cup {<<PathA, StartTime + 1, <<"x">>>>}

CallUrlToDirectoryName ==
    /\ call = NoCall
    /\ \E pre \in UrlPrefixes, n \in 0..MaxUrlLen :
          \E text \in [1..n -> UrlTokens] :
             /\ Canonical(text)
             /\ LET rawURL == pre \o text
                IN  call' = [fn |-> "urlToDirectoryName", arg |-> rawURL,
                             panic |-> urlToDirectoryNamePanics(rawURL),
                             res |-> IF urlToDirectoryNamePanics(rawURL) THEN <<>>
                                     ELSE urlToDirectoryName(rawURL)]
    /\ UNCHANGED <<now, files, dirs, pc, inv, obs>>

CallFileURL ==
    /\ call = NoCall
    /\ \E baseURL \in BaseURLs, filePath \in FilePaths :
          call' = [fn |-> "FileURL", arg |-> [baseURL |-> baseURL, filePath |-> filePath],
                   res |-> FileURL(baseURL, filePath)]
    /\ UNCHANGED <<now, files, dirs, pc, inv, obs>>

CallParseChangesCSV ==
    /\ call = NoCall
    /\ \E n \in 0..MaxRows :
          \E data \in [1..n -> CsvLines] :
             call' = [fn |-> "ParseChangesCSV", arg |-> data, res |-> ParseChangesCSV(data)]
    /\ UNCHANGED <<now, files, dirs, pc, inv, obs>>

\* the directory URLs of two datasets: a scheme, "//", and a text of at most
\* MaxNameLen tokens
MaxNameLen == 3
NameSchemes == {"https", "http"}
NameTokens == {"h", "/", "_"}

\* FromDirectoryURL's `dirName := urlToDirectoryName(directoryURL)` (line 267)
\* for two directory URLs that url.Parse accepts
CallUrlToDirectoryNameTwice ==
    /\ call = NoCall
    /\ \E sch1, sch2 \in NameSchemes, n1, n2 \in 0..MaxNameLen :
          \E text1 \in [1..n1 -> NameTokens], text2 \in [1..n2 -> NameTokens] :
             /\ Canonical(text1) /\ Canonical(text2)
             /\ LET url1 == <<sch1, ":", "/", "/">> \o text1
                    url2 == <<sch2, ":", "/", "/">> \o text2
                IN  /\ ~urlToDirectoryNamePanics(url1)
                    /\ ~urlToDirectoryNamePanics(url2)
                    /\ call' = [fn |-> "urlToDirectoryNameTwice",
                                arg |-> <<url1, url2>>,
                                res |-> <<urlToDirectoryName(url1), urlToDirectoryName(url2)>>]
    /\ UNCHANGED <<now, files, dirs, pc, inv, obs>>

NextCalls ==
    \/ CallUrlToDirectoryName
    \/ CallFileURL
    \/ CallParseChangesCSV
    \/ CallUrlToDirectoryNameTwice

SpecCalls == Init /\ [][NextCalls]_vars

\* ------------------------------------------------------------------ two callers at once

\* what the remote directory holds while the two callers run: no archive, an
\* index.txt that lists a.json and b.json, one content of each, and a change
\* log with both, changed before the clock's first value
SteadyIndex == <<PathA, PathB>>
SteadyChanges == (PathA :> StartTime - 1) @@ (PathB :> StartTime - 1)
SteadyBody == Data(1)

\* every response received so far is a failure or what the remote holds
SteadyRemote ==
    /\ \A p \in Procs :
          /\ obs[p].probe.status # StatusOK
          /\ inv[p].mode = "listing" =>
                \E k \in 0..Len(SteadyIndex) :
                    inv[p].filePaths = SubSeq(SteadyIndex, k + 1, Len(SteadyIndex))
          /\ inv[p].allChanges \in {<<>>, SteadyChanges}
    /\ \A f \in DOMAIN files : files[f].kind = "data" => files[f] = SteadyBody

\* two processes each invoke FromDirectoryURL once, for the same directory
\* URL and over the same cache; the code takes no lock, so their steps
\* interleave freely
NextConc ==
    \E p \in Procs :
        \/ Begin(p)
        \/ MkdirTarget(p)
        \/ CheckCache(p)
        \/ FetchChanges(p) /\ SteadyRemote'
        \/ FilterChanges(p)
        \/ IndividualFiles(p) /\ SteadyRemote'
        \/ ClearTarget(p)
        \/ RecreateTarget(p)
        \/ ProbeArchive(p) /\ SteadyRemote'
        \/ FetchIndex(p) /\ SteadyRemote' /\ inv'[p].filePaths \in {<<>>, SteadyIndex}
        \/ SaveMetadata(p)

SpecConc == Init /\ [][NextConc]_vars

\* ------------------------------------------------------------------ a sync and the next one

\* the caller of the first sync, and the caller of the one that follows it
FirstSync == "p1"
NextSync == "p2"

\* the first sync receives index.txt (lines 348-372); `call` keeps the
\* clock of that moment
ReadListing ==
    /\ pc[FirstSync] = "index"
    /\ \E resp \in Responses({SteadyIndex}) : FetchIndexOn(FirstSync, resp)
    /\ call' = [fn |-> "read", at |-> now]
    /\ UNCHANGED <<now, files, dirs>>

\* the first sync has returned successfully
FirstSyncDone == pc[FirstSync] = "done"

\* a first, full sync of the listing of a remote directory while the clock
\* runs, and then the start of the next sync of the same directory, up to
\* its changed-file set
NextTwoSyncs ==
    \/ Tick
    \/ Begin(FirstSync)
    \/ MkdirTarget(FirstSync)
    \/ CheckCache(FirstSync)
    \/ ClearTarget(FirstSync)
    \/ RecreateTarget(FirstSync)
    \/ ProbeArchive(FirstSync) /\ SteadyRemote'
    \/ ReadListing
    \/ IndividualFiles(FirstSync) /\ SteadyRemote'
    \/ SaveMetadata(FirstSync)
    \/ FirstSyncDone /\ Begin(NextSync)
    \/ FirstSyncDone /\ MkdirTarget(NextSync)
    \/ FirstSyncDone /\ CheckCache(NextSync)
    \/ FirstSyncDone /\ FetchChanges(NextSync)
    \/ FirstSyncDone /\ FilterChanges(NextSync)

SpecTwoSyncs == Init /\ [][NextTwoSyncs]_vars

\* ------------------------------------------------------------------ cached datasets

\* three remote directories and, in the order of os.ReadDir (by file name),
\* the dataset directories FromDirectoryURL keeps them in
UrlYSlash == <<"https", ":", "/", "/", "h", "/", "y", "/">>
UrlZSlash == <<"https", ":", "/", "/", "h", "/", "z", "/">>
DataSetUrls == <<UrlXSlash, UrlYSlash, UrlZSlash>>
DataSetNames == [i \in DOMAIN DataSetUrls |-> urlToDirectoryName(DataSetUrls[i])]

\* what earlier syncs can have left of a dataset: nothing; the directory
\* alone (a full download that failed after it recreated the directory); a
\* document and the record of a sync at lastSync; a document and the
\* truncated record of a save that failed
DataSetStates == {"absent", "empty", "synced", "broken"}
DataSetDisk(i, state, lastSync) ==
    LET dataSetPath == <<DataSetNames[i]>>
        document    == Append(dataSetPath, PathA) :> Data(1)
        record      == Append(dataSetPath, MetadataName)
    IN  [dirs  |-> IF state = "absent" THEN {} ELSE {dataSetPath},
         files |-> IF state = "synced"
                   THEN document @@ (record :> SyncMetadata(lastSync, DataSetUrls[i]))
                   ELSE IF state = "broken" THEN document @@ (record :> Truncated)
                   ELSE <<>>]

\* the disk that holds dataset i in state states[i]
RECURSIVE CacheDisk(_, _, _)
CacheDisk(states, lastSyncs, n) ==
    IF n = 0 THEN [dirs |-> {}, files |-> <<>>]
    ELSE LET rest == CacheDisk(states, lastSyncs, n - 1)
             this == DataSetDisk(n, states[n], lastSyncs[n])
         IN  [dirs |-> rest.dirs \cup this.dirs, files |-> rest.files @@ this.files]

\* a cache that earlier syncs have filled, a second after the latest of them
InitCache ==
    /\ now = StartTime + 1
    /\ \E states \in [DOMAIN DataSetUrls -> DataSetStates] :
          LET disk == CacheDisk(states, [i \in DOMAIN DataSetUrls |-> StartTime],
                                Len(DataSetUrls))
          IN  files = disk.files /\ dirs = disk.dirs
    /\ pc = [p \in Procs |-> "idle"]
    /\ inv = [p \in Procs |-> IdleInv]
    /\ obs = [p \in Procs |-> IdleObs]
    /\ call = NoCall

\* ListDataSets(): the names of the directories under the cache path, in the
\* order of os.ReadDir
ListDataSets == SelectSeq(DataSetNames, LAMBDA name : <<name>> \in dirs)

\* ClearDataSet(dataSetName) on the disk `disk`: (disk afterwards, err).
\* When os.RemoveAll fails the directory is left with the files in kept.
ClearDataSet(disk, dataSetName, removeFails, kept) ==
    LET dataSetPath == <<dataSetName>>
        under       == {f \in DOMAIN disk.files : IsPrefix(dataSetPath, f)}
    IN  IF dataSetPath \notin disk.dirs /\ dataSetPath \notin DOMAIN disk.files
        THEN [disk |-> disk, err |-> "does not exist"]
        ELSE IF removeFails
        THEN [disk |-> [disk EXCEPT !.files = Without(@, under \ kept)],
              err |-> "failed to clear"]
        ELSE [disk |-> [files |-> Without(disk.files, under),
                        dirs |-> {d \in disk.dirs : ~IsPrefix(dataSetPath, d)}],
              err |-> "none"]

\* mutant of ClearAllGoesOn: the loop ends at the first error
ClearAllGoesOn_StopsAtError(err) == err = "none"

\* the loop of ClearAllDataSets has no return and no break (lines 178-182):
\* whether it goes on after ClearDataSet has returned err
ClearAllGoesOn(err) == TRUE

\* the loop of ClearAllDataSets over dataSets (lines 177-182): the disk and
\* the errors collected, each with the name of its dataset
RECURSIVE ClearAllLoop(_, _, _, _, _)
ClearAllLoop(dataSets, disk, errors, failing, kept) ==
    IF dataSets = <<>> THEN [disk |-> disk, errors |-> errors]
    ELSE LET r    == ClearDataSet(disk, Head(dataSets), Head(dataSets) \in failing, kept)
             errs == IF r.err = "none" THEN errors
                     ELSE Append(errors, <<Head(dataSets), r.err>>)
         IN  IF ClearAllGoesOn(r.err)
             THEN ClearAllLoop(Tail(dataSets), r.disk, errs, failing, kept)
             ELSE [disk |-> r.disk, errors |-> errs]

\* ClearAllDataSets(): err is "list" when ListDataSets fails, "some" when at
\* least one ClearDataSet failed (the message prints errors), "none" otherwise
ClearAllDataSets(listFails, failing, kept) ==
    IF listFails
    THEN [disk |-> [files |-> files, dirs |-> dirs], errors |-> <<>>, err |-> "list"]
    ELSE Only({[disk |-> r.disk, errors |-> r.errors,
                err |-> IF Len(r.errors) > 0 THEN "some" ELSE "none"] :
               r \in {ClearAllLoop(ListDataSets, [files |-> files, dirs |-> dirs],
                                   <<>>, failing, kept)}})

\* a caller runs ClearAllDataSets(); the environment decides whether the
\* directory can be read and which of the os.RemoveAll calls fail
CallClearAllDataSets ==
    /\ call = NoCall
    /\ \E listFails \in BOOLEAN, failing \in SUBSET {ListDataSets[i] : i \in DOMAIN ListDataSets} :
          \E kept \in SUBSET UNION {FilesUnder(<<name>>) : name \in failing} :
             \E r \in {ClearAllDataSets(listFails, failing, kept)} :
                /\ files' = r.disk.files
                /\ dirs' = r.disk.dirs
                /\ call' = [fn |-> "ClearAllDataSets",
                            arg |-> [listed |-> ListDataSets, failing |-> failing],
                            res |-> [err |-> r.err, errors |-> r.errors]]
    /\ UNCHANGED <<now, pc, inv, obs>>

\* mutant of GetDataSetSourceURL: the os.Stat of the directory is left out
GetDataSetSourceURL_NoStat(dataSetName) ==
    LET dataSetPath == <<dataSetName>>
        l           == LoadSyncMetadata(dataSetPath)
    IN  IF l.err THEN [url |-> <<>>, err |-> "failed to load metadata"]
        ELSE IF l.metadata.kind = "none" THEN [url |-> <<>>, err |-> "no metadata found"]
        ELSE [url |-> l.metadata.SourceURL, err |-> "none"]

\* GetDataSetSourceURL(dataSetName): (url, err)
GetDataSetSourceURL(dataSetName) ==
    LET dataSetPath == <<dataSetName>>
        l           == LoadSyncMetadata(dataSetPath)
    IN  IF dataSetPath \notin dirs /\ dataSetPath \notin DOMAIN files
        THEN [url |-> <<>>, err |-> "does not exist"]
        ELSE IF l.err THEN [url |-> <<>>, err |-> "failed to load metadata"]
        ELSE IF l.metadata.kind = "none" THEN [url |-> <<>>, err |-> "no metadata found"]
        ELSE [url |-> l.metadata.SourceURL, err |-> "none"]

\* a caller asks for the source URL of a dataset
CallGetDataSetSourceURL ==
    /\ call = NoCall
    /\ \E i \in DOMAIN DataSetNames :
          call' = [fn |-> "GetDataSetSourceURL", arg |-> DataSetNames[i],
                   res |-> GetDataSetSourceURL(DataSetNames[i])]
    /\ UNCHANGED <<now, files, dirs, pc, inv, obs>>

NextCache == CallClearAllDataSets \/ CallGetDataSetSourceURL

\* ------------------------------------------------------------------ batch sync

\* the batch commands of main.go
BatchCommands == {"syncAllDataSets", "interactiveSync"}

\* a batch command that has not started its loop: returned says how far the
\* command has come ("running": in the loop)
Batch(fn, batch, sourceURLs, returned) ==
    [fn |-> fn, batch |-> batch, sourceURLs |-> sourceURLs, next |-> 1,
     attempted |-> <<>>, syncErrors |-> <<>>, successCount |-> 0,
     returned |-> returned]

\* the cache the batch commands find, a second after the first dataset was
\* synced and more than three weeks after the second was; the third has no
\* record or a truncated one
InitBatch ==
    /\ now = StartTime + ThreeWeeks + 1
    /\ \E third \in {"empty", "broken"} :
          LET disk == CacheDisk(<<"synced", "synced", third>>,
                                <<StartTime + ThreeWeeks, StartTime, StartTime>>,
                                Len(DataSetUrls))
          IN  files = disk.files /\ dirs = disk.dirs
    /\ pc = [p \in Procs |-> "idle"]
    /\ inv = [p \in Procs |-> IdleInv]
    /\ obs = [p \in Procs |-> IdleObs]
    /\ call = NoCall

\* syncAllDataSets() up to its loop (lines 621-672): the datasets without a
\* source URL are left out with a warning; the user confirms or cancels
CallSyncAllDataSets ==
    /\ call = NoCall
    /\ \E listFails, confirmed \in BOOLEAN :
          LET dataSetsToSync ==
                  SelectSeq(ListDataSets,
                            LAMBDA name : GetDataSetSourceURL(name).err = "none")
          IN  call' = Batch("syncAllDataSets",
                            IF listFails THEN <<>> ELSE dataSetsToSync, <<>>,
                            IF listFails THEN "list error"
                            ELSE IF Len(ListDataSets) = 0 THEN "nil"
                            ELSE IF ~confirmed THEN "cancelled" ELSE "running")
    /\ UNCHANGED <<now, files, dirs, pc, inv, obs>>

\* the selections of the multi-select: the datasets chosen, in the order of
\* choice
Selections(names) ==
    {sel \in UNION {[1..k -> names] : k \in 1..Cardinality(names)} :
        \A i, j \in DOMAIN sel : sel[i] = sel[j] => i = j}

\* interactiveSync() up to its loop (lines 711-848): the source URL of each
\* dataset listed is looked up first ("" when the lookup fails)
CallInteractiveSync ==
    /\ call = NoCall
    /\ Len(ListDataSets) > 0
    /\ \E confirmed \in BOOLEAN :
          \E selectedDataSets \in Selections({ListDataSets[i] : i \in DOMAIN ListDataSets}) :
             LET sourceURLs == [name \in {ListDataSets[i] : i \in DOMAIN ListDataSets} |->
                                   GetDataSetSourceURL(name).url]
             IN  call' = Batch("interactiveSync", selectedDataSets, sourceURLs,
                               IF ~confirmed THEN "cancelled" ELSE "running")
    /\ UNCHANGED <<now, files, dirs, pc, inv, obs>>

\* mutant of SyncGoesOn: the loop ends at the first dataset that fails
SyncGoesOn_StopsAtError(failed) == ~failed

\* the loops of syncAllDataSets (lines 676-691) and interactiveSync
\* (lines 850-873) `continue` after an error and have no return and no
\* break: whether the loop goes on to the next dataset
SyncGoesOn(failed) == TRUE

\* where the loop stands after the dataset at call.next
NextDataSet(failed) ==
    IF SyncGoesOn(failed) THEN call.next + 1 ELSE Len(call.batch) + 1

\* the source URL the loop has for dataset dsName: syncAllDataSets asks
\* GetDataSetSourceURL again, interactiveSync takes the one it looked up
BatchSourceURL(dsName) ==
    IF call.fn = "syncAllDataSets"
    THEN [url |-> GetDataSetSourceURL(dsName).url,
          err |-> IF GetDataSetSourceURL(dsName).err = "none" THEN "none"
                  ELSE "failed to get source URL"]
    ELSE [url |-> call.sourceURLs[dsName],
          err |-> IF call.sourceURLs[dsName] = <<>> THEN "could not find source URL"
                  ELSE "none"]

\* one pass of the loop up to the call of download.FromDirectoryURL
SyncNext(p) ==
    /\ call.fn \in BatchCommands
    /\ call.returned = "running"
    /\ pc[p] = "idle"
    /\ call.next <= Len(call.batch)
    /\ LET dsName == call.batch[call.next]
           found  == BatchSourceURL(dsName)
       IN  IF found.err # "none"
           THEN /\ call' = [call EXCEPT !.attempted = Append(@, dsName),
                                        !.syncErrors = Append(@, <<dsName, found.err>>),
                                        !.next = NextDataSet(TRUE)]
                /\ UNCHANGED <<pc, inv, obs>>
           ELSE /\ call' = [call EXCEPT !.attempted = Append(@, dsName)]
                /\ \E ioOK \in BOOLEAN : BeginWith(p, found.url, ioOK)
    /\ UNCHANGED <<now, files, dirs>>

\* download.FromDirectoryURL has returned: the rest of the pass
SyncCollect(p) ==
    /\ call.fn \in BatchCommands
    /\ call.returned = "running"
    /\ pc[p] \in {"done", "failed"}
    /\ call' = [call EXCEPT
                  !.syncErrors = IF pc[p] = "failed"
                                 THEN Append(@, <<call.batch[call.next], "failed to sync">>)
                                 ELSE @,
                  !.successCount = IF pc[p] = "done" THEN @ + 1 ELSE @,
                  !.next = NextDataSet(pc[p] = "failed")]
    /\ pc' = [pc EXCEPT ![p] = "idle"]
    /\ inv' = [inv EXCEPT ![p] = IdleInv]
    /\ obs' = [obs EXCEPT ![p] = IdleObs]
    /\ UNCHANGED <<now, files, dirs>>

\* after the loop: `if len(syncErrors) > 0 { return fmt.Errorf(...) }`
SyncReturn(p) ==
    /\ call.fn \in BatchCommands
    /\ call.returned = "running"
    /\ pc[p] = "idle"
    /\ call.next > Len(call.batch)
    /\ call' = [call EXCEPT !.returned = IF Len(call.syncErrors) > 0 THEN "error" ELSE "nil"]
    /\ UNCHANGED <<now, files, dirs, pc, inv, obs>>

\* a batch command over a remote that does not change
NextBatch ==
    \/ CallSyncAllDataSets
    \/ CallInteractiveSync
    \/ \E p \in SeqProcs :
          \/ SyncNext(p)
          \/ MkdirTarget(p)
          \/ CheckCache(p)
          \/ FetchChanges(p) /\ SteadyRemote'
          \/ FilterChanges(p)
          \/ IndividualFiles(p) /\ SteadyRemote'
          \/ ClearTarget(p)
          \/ RecreateTarget(p)
          \/ ProbeArchive(p) /\ SteadyRemote'
          \/ FetchIndex(p) /\ SteadyRemote' /\ inv'[p].filePaths \in {<<>>, SteadyIndex}
          \/ SaveMetadata(p)
          \/ SyncCollect(p)
          \/ SyncReturn(p)

SpecBatch == InitBatch /\ [][NextBatch]_vars

\* ------------------------------------------------------------------ a listing that names parent directories

\* lines of an index.txt whose paths have ".." segments: a document of the
\* second dataset, its metadata record, and a file above the cache path
UpToSibling == <<"..", "/">> \o DataSetNames[2] \o <<"/">>
ParentLines ==
    {PathA, UpToSibling \o PathA, UpToSibling \o MetadataName,
     <<"..", "/", "..", "/">> \o PathA}
ParentListings == SeqsUpTo(ParentLines, MaxRows)

\* the listing path (lines 348-372) when the remote serves such an index.txt
FetchIndexOfParents(p) ==
    /\ pc[p] = "index"
    /\ \E resp \in Responses(ParentListings) : FetchIndexOn(p, resp)
    /\ UNCHANGED <<now, files, dirs, call>>

\* the cache before the sync: the first dataset not cached or synced a second
\* ago, the second synced a second ago
InitParents ==
    /\ now = StartTime + 1
    /\ \E first \in {"absent", "synced"} :
          LET disk == CacheDisk(<<first, "synced", "absent">>,
                                [i \in DOMAIN DataSetUrls |-> StartTime],
                                Len(DataSetUrls))
          IN  files = disk.files /\ dirs = disk.dirs
    /\ pc = [p \in Procs |-> "idle"]
    /\ inv = [p \in Procs |-> IdleInv]
    /\ obs = [p \in Procs |-> IdleObs]
    /\ call = NoCall

\* one invocation of FromDirectoryURL for the first dataset
NextParents ==
    \E p \in SeqProcs :
        \/ Begin(p)
        \/ MkdirTarget(p)
        \/ CheckCache(p)
        \/ FetchChanges(p)
        \/ FilterChanges(p)
        \/ IndividualFiles(p)
        \/ ClearTarget(p)
        \/ RecreateTarget(p)
        \/ ProbeArchive(p)
        \/ GetCSAFArchive(p)
        \/ ExtractCSAFArchive(p)
        \/ FetchIndexOfParents(p)
        \/ SaveMetadata(p)

SpecParents == InitParents /\ [][NextParents]_vars

SpecCache == InitCache /\ [][NextCache]_vars

\* ------------------------------------------------------------------ claims: helpers

Range(seq) == {seq[i] : i \in 1..Len(seq)}

MetadataPath(p) == Append(inv[p].targetPath, MetadataName)

\* the invocation of p has checked the cache and chosen its strategy
Checked(p) == obs[p].checkNow # 0

Incremental(p) == inv[p].mode = "incremental"
Full(p) == inv[p].mode \in {"full", "bulk", "listing"}

\* the failures of the steps that use the remote: change-log fetch and parse,
\* archive probe, archive fetch and extraction, listing fetch, per-file fetch
RemoteErrors ==
    {"get changes.csv", "parse changes.csv", "fetch archive_latest.txt",
     "archive file", "decompress archive", "extract tar archive",
     "fetch index.txt", "download"}

FailedOnRemote(p) == pc[p] = "failed" /\ obs[p].err \in RemoteErrors

\* a metadata record was on disk when the invocation of p began
HadRecord(p) ==
    /\ MetadataPath(p) \in DOMAIN obs[p].files0
    /\ obs[p].files0[MetadataPath(p)].kind = "meta"

RecordBefore(p) == obs[p].files0[MetadataPath(p)]

\* ------------------------------------------------------------------ claims

\* C1: a sync invocation that ends in failure (here: in the failure of one
\* of its remote steps) leaves the metadata record of the dataset as it was:
\* none before, none after; one before, the same one after.
C1_FailedSyncKeepsMetadata ==
    \A p \in Procs :
        FailedOnRemote(p) =>
            /\ (MetadataPath(p) \in DOMAIN files) = (MetadataPath(p) \in DOMAIN obs[p].files0)
            /\ MetadataPath(p) \in DOMAIN files =>
                   files[MetadataPath(p)] = obs[p].files0[MetadataPath(p)]

\* C2: a sync invocation that fails at a remote step leaves the cached file
\* tree intact: every document that was in the directory of an already synced
\* dataset before is still there with the same content.
C2_FailedSyncKeepsFiles ==
    \A p \in Procs :
        (FailedOnRemote(p) /\ HadRecord(p)) =>
            \A f \in DOMAIN obs[p].files0 :
                (IsPrefix(inv[p].targetPath, f) /\ obs[p].files0[f].kind = "data") =>
                    (f \in DOMAIN files /\ files[f] = obs[p].files0[f])

\* C3: every invocation that returns success has persisted the record
\* {lastSync: the time of its save, sourceURL: its input URL}, which is all
\* that metadata.json then holds; also when nothing had changed.
C3_SuccessPersistsMetadata ==
    \A p \in Procs :
        pc[p] = "done" =>
            /\ MetadataPath(p) \in DOMAIN files
            /\ files[MetadataPath(p)] = SyncMetadata(obs[p].saveNow, inv[p].directoryURL)
            /\ obs[p].checkNow <= obs[p].saveNow
            /\ obs[p].saveNow <= now

\* C3 witness: an incremental sync with an empty changed-file set and no file
\* request has returned success and replaced an older record.
C3_Witness ==
    \E p \in Procs :
        /\ pc[p] = "done"
        /\ Incremental(p)
        /\ obs[p].changedFiles = {}
        /\ Len(obs[p].requests) = 1
        /\ HadRecord(p)
        /\ RecordBefore(p).LastSync < obs[p].saveNow
        /\ files[MetadataPath(p)].LastSync = obs[p].saveNow

\* the record on disk when p began was fresh at the time of p's check: it is
\* not older than three weeks
FreshAtCheck(p) ==
    HadRecord(p) /\ obs[p].checkNow - RecordBefore(p).LastSync <= ThreeWeeks

RequestedChanges(p) ==
    ResourceURL(inv[p].directoryURL, <<"changes.csv">>) \in Range(obs[p].requests)
RequestedFull(p) ==
    \/ ResourceURL(inv[p].directoryURL, <<"archive_latest.txt">>) \in Range(obs[p].requests)
    \/ ResourceURL(inv[p].directoryURL, <<"index.txt">>) \in Range(obs[p].requests)

\* C4: the incremental path is taken iff the metadata store reports a valid
\* cache, which depends on the local record and the clock alone; otherwise a
\* full sync is done, and never both in one invocation.
C4_StrategyByLocalCache ==
    \A p \in Procs :
        Checked(p) =>
            /\ Incremental(p) <=> inv[p].isValid
            /\ Incremental(p) <=> FreshAtCheck(p)
            /\ Full(p) <=> ~Incremental(p)
            /\ Incremental(p) => (~obs[p].cleared /\ ~RequestedFull(p))
            /\ Full(p) => ~RequestedChanges(p)
            /\ ~(RequestedChanges(p) /\ RequestedFull(p))

\* C4 witness: a stale record has led to a full sync that has fetched the
\* listing.
C4_Witness ==
    \E p \in Procs :
        /\ Checked(p)
        /\ HadRecord(p)
        /\ ~FreshAtCheck(p)
        /\ inv[p].mode = "listing"
        /\ ResourceURL(inv[p].directoryURL, <<"index.txt">>) \in Range(obs[p].requests)

NonBlank(S) == {f \in S : TrimSpace(f) # <<>>}

\* the URLs p has requested after changes.csv
FileRequests(p) == {obs[p].requests[i] : i \in 2..Len(obs[p].requests)}

FileURLs(p, S) == {FileURL(inv[p].directoryURL, f) : f \in S}

\* the change log of the scenario: a.json before lastSync, b.json after it
ScenarioChanges == (PathA :> StartTime - 1) @@ (PathB :> StartTime + 1)

\* C7 as stated, for an incremental sync that has returned success: the
\* requested files are those of the changed-file set, every one of them.
C7_FetchesWholeChangedSet ==
    \A p \in Procs :
        (pc[p] = "done" /\ Incremental(p)) =>
            /\ FileRequests(p) = FileURLs(p, obs[p].changedFiles)
            /\ \A f \in obs[p].changedFiles :
                   PathJoin(inv[p].targetPath, f) \in obs[p].written

\* C7 as amended: the changed-file set is the set of logged paths whose
\* timestamp is strictly after lastSync ({b.json} in the scenario); the paths
\* to fetch are exactly that set; no path outside it is ever requested; and
\* when the sync returns success every path of it that is not empty or white
\* space has been requested and written.
C7_Step(p) ==
    /\ (pc[p] = "filter" /\ pc'[p] # "filter") =>
          /\ obs'[p].changedFiles =
                {f \in DOMAIN inv[p].allChanges :
                    inv[p].allChanges[f] > inv[p].metadata.LastSync}
          /\ Range(inv'[p].filePaths) = obs'[p].changedFiles
          /\ Len(inv'[p].filePaths) = Cardinality(obs'[p].changedFiles)
          /\ (inv[p].allChanges = ScenarioChanges /\ inv[p].metadata.LastSync = StartTime)
                => obs'[p].changedFiles = {PathB}
    /\ Incremental(p) =>
          /\ FileRequests(p)' \subseteq FileURLs(p, NonBlank(obs[p].changedFiles))'
          /\ pc'[p] = "done" =>
                /\ FileRequests(p)' = FileURLs(p, NonBlank(obs[p].changedFiles))'
                /\ \A f \in NonBlank(obs'[p].changedFiles) :
                       PathJoin(inv'[p].targetPath, f) \in obs'[p].written

C7_ChangedSetDrivesFetch == [][\A p \in Procs : C7_Step(p)]_vars

\* C7 witness: the scenario's change log has been filtered against lastSync
\* 2024-03-01 (StartTime) and b.json alone is to be fetched.
C7_Witness ==
    \E p \in Procs :
        /\ pc[p] = "files"
        /\ Incremental(p)
        /\ inv[p].metadata.LastSync = StartTime
        /\ obs[p].changedFiles = {PathB}
        /\ inv[p].filePaths = <<PathB>>
        /\ Len(obs[p].requests) = 1

\* C8: with a valid cache, a failure to fetch or parse the change log fails
\* the invocation: no fallback to a full sync, no clearing of the directory,
\* no archive probe, no listing.
C8_BrokenChangeLogFails ==
    \A p \in Procs :
        (Incremental(p) /\ obs[p].err \in {"get changes.csv", "parse changes.csv"}) =>
            /\ pc[p] = "failed"
            /\ ~obs[p].cleared
            /\ obs[p].requests = <<ResourceURL(inv[p].directoryURL, <<"changes.csv">>)>>
            /\ files = obs[p].files0
            /\ obs[p].saveNow = 0

\* C8 witness: a valid cache, a change log with an unparsable timestamp, and
\* the invocation has failed.
C8_Witness ==
    \E p \in Procs :
        /\ Incremental(p)
        /\ inv[p].isValid
        /\ obs[p].err = "parse changes.csv"
        /\ pc[p] = "failed"
        /\ DOMAIN files # {MetadataPath(p)}

\* C9: a full sync clears and recreates the dataset directory before it
\* requests anything, so after a successful full sync the directory holds
\* what this invocation wrote and its metadata record, and nothing else.
C9_FullSyncReplaces ==
    \A p \in Procs :
        Full(p) =>
            /\ obs[p].requests # <<>> => obs[p].cleared
            /\ pc[p] = "probe" =>
                  (obs[p].cleared /\ FilesUnder(inv[p].targetPath) = {}
                     /\ inv[p].targetPath \in dirs /\ obs[p].requests = <<>>)
            /\ pc[p] = "done" =>
                  /\ obs[p].cleared
                  /\ FilesUnder(inv[p].targetPath) = obs[p].written \cup {MetadataPath(p)}
                  /\ files[MetadataPath(p)].kind = "meta"

\* C9 witness: a successful full sync over a directory that held a document
\* the new content does not have.
C9_Witness ==
    \E p \in Procs :
        /\ pc[p] = "done"
        /\ Full(p)
        /\ \E f \in DOMAIN obs[p].files0 :
              obs[p].files0[f].kind = "data" /\ f \notin DOMAIN files
        /\ \E f \in DOMAIN files : files[f].kind = "data"

Probed(p) == obs[p].probe # NoResponse

IndexRequested(p) ==
    /\ Len(obs[p].requests) >= 2
    /\ obs[p].requests[2] = ResourceURL(inv[p].directoryURL, <<"index.txt">>)

\* C10: a 404 to the archive_latest.txt probe is no error and leads to the
\* listing path; a transport failure or any other status but 200 fails the
\* sync without a request for the listing.
C10_ProbeNotFoundFallsBack ==
    \A p \in Procs :
        Probed(p) =>
            /\ (obs[p].probe.err # "connect" /\ obs[p].probe.status = StatusNotFound) =>
                  /\ obs[p].err # "fetch archive_latest.txt"
                  /\ inv[p].mode = "listing"
                  /\ pc[p] \in {"index", "files", "save", "done", "failed"}
                  /\ pc[p] # "index" => IndexRequested(p)
            /\ (obs[p].probe.err = "connect" \/ obs[p].probe.status \notin {StatusOK, StatusNotFound}) =>
                  /\ pc[p] = "failed"
                  /\ obs[p].err = "fetch archive_latest.txt"
                  /\ Len(obs[p].requests) = 1

\* C10 witness: the probe was answered 404 and the invocation has gone on to
\* fetch a listed file.
C10_Witness ==
    \E p \in Procs :
        /\ obs[p].probe.status = StatusNotFound
        /\ IndexRequested(p)
        /\ Len(obs[p].requests) = 3
        /\ pc[p] \in {"files", "save"}

ArchivePath(p) == Append(inv[p].targetPath, ArchiveName)
TarPath(p) == Append(inv[p].targetPath, TarName)

\* C11: on the listing path, an index.txt without a line that is not white
\* space (empty, or blank lines only) fails the sync with "no files found":
\* index.txt is the last request, no file is fetched or written and no
\* metadata record is written.
C11_BlankIndexFails ==
    \A p \in Procs :
        obs[p].index = "blank" =>
            /\ pc[p] = "failed"
            /\ obs[p].err = "no files found in index.txt"
            /\ inv[p].mode = "listing"
            /\ Len(obs[p].requests) = 2
            /\ IndexRequested(p)
            /\ obs[p].written = {}
            /\ obs[p].saveNow = 0
            /\ FilesUnder(inv[p].targetPath) = {}

\* C11 witness: the probe was answered 404, the index.txt received has no
\* path, and the invocation has failed.
C11_Witness ==
    \E p \in Procs :
        /\ obs[p].index = "blank"
        /\ obs[p].probe.status = StatusNotFound
        /\ pc[p] = "failed"
        /\ HadRecord(p)

\* C12: when the archive request is answered with a status other than 200
\* (404 included), the bulk fetch fails with a fetch error, the body is not
\* stored as the archive and no extraction is attempted.
C12_ArchiveStatusChecked ==
    \A p \in Procs :
        obs[p].archiveStatus \notin {0, StatusOK} =>
            /\ pc[p] = "failed"
            /\ obs[p].err = "archive file"
            /\ ArchivePath(p) \notin DOMAIN files
            /\ TarPath(p) \notin DOMAIN files

\* C13: a successful bulk fetch has removed csaf_advisories.tar and
\* archive.tar.zst: the extraction step leaves in the dataset directory the
\* entries of the archive and nothing else, and after it the directory holds
\* nothing but them and, once saved, the metadata record.
C13_Step(p) ==
    /\ (pc[p] = "extract" /\ pc'[p] = "save") =>
          /\ files[ArchivePath(p)].kind = "zst"
          /\ FilesUnder(inv[p].targetPath)' =
                {PathJoin(inv[p].targetPath, e) : e \in DOMAIN files[ArchivePath(p)].entries}
          /\ \A e \in DOMAIN files[ArchivePath(p)].entries :
                files'[PathJoin(inv[p].targetPath, e)] = files[ArchivePath(p)].entries[e]
    /\ (inv[p].mode = "bulk" /\ pc[p] \in {"save", "done"}) =>
          /\ ArchivePath(p) \notin DOMAIN files
          /\ TarPath(p) \notin DOMAIN files
          /\ \A f \in FilesUnder(inv[p].targetPath) :
                files[f].kind = "data" \/ (pc[p] = "done" /\ f = MetadataPath(p))

C14_Step(p) ==
    /\ (pc[p] = "files" /\ pc'[p] # "files" /\ obs'[p].fileStatus \notin {0, StatusOK}) =>
          /\ pc'[p] = "failed"
          /\ obs'[p].err = "download"
          /\ obs'[p].requests =
                Append(obs[p].requests, FileURL(inv[p].directoryURL, Head(inv[p].filePaths)))
          /\ inv'[p].filePaths = inv[p].filePaths
          /\ files' = files
          /\ obs'[p].written = obs[p].written
    /\ obs[p].fileStatus \notin {0, StatusOK} =>
          /\ pc[p] = "failed"
          /\ obs[p].written \subseteq DOMAIN files
          /\ pc'[p] # "idle" => (files' = files /\ obs'[p] = obs[p] /\ inv'[p] = inv[p])

C14_FileErrorStops == [][\A p \in Procs : C14_Step(p)]_vars

\* C14 witness: the second file of a listing was answered 404 after the
\* first had been written, and the first is still on disk.
C14_Witness ==
    \E p \in Procs :
        /\ pc[p] = "failed"
        /\ obs[p].fileStatus = StatusNotFound
        /\ inv[p].mode = "listing"
        /\ Len(inv[p].filePaths) = 1
        /\ obs[p].written # {}
        /\ \A f \in obs[p].written : f \in DOMAIN files /\ files[f].kind = "data"

\* a path that is empty or holds white space only
Blank(f) == \A i \in 1..Len(f) : f[i] = " "

\* C16: the listing fetch skips an empty or whitespace-only path: no request
\* is made and no file or directory is created for it, and the paths after
\* it are processed.
C16_Step(p) ==
    (pc[p] = "files" /\ Blank(Head(inv[p].filePaths))
        /\ (pc'[p] # "files" \/ inv'[p] # inv[p] \/ obs'[p] # obs[p])) =>
        /\ obs'[p].requests = obs[p].requests
        /\ files' = files
        /\ dirs' = dirs
        /\ obs'[p].written = obs[p].written
        /\ inv'[p].filePaths = Tail(inv[p].filePaths)
        /\ pc'[p] = IF Tail(inv[p].filePaths) = <<>> THEN "save" ELSE "files"

C16_BlankPathSkipped == [][\A p \in Procs : C16_Step(p)]_vars

\* C16 witness: of the changed paths " " and a.json the first has been
\* passed over without a request and a.json is the next to fetch.
C16_Witness ==
    \E p \in Procs :
        /\ pc[p] = "files"
        /\ obs[p].changedFiles = {BlankPath, PathA}
        /\ inv[p].filePaths = <<PathA>>
        /\ Len(obs[p].requests) = 1
        /\ obs[p].written = {}

RECURSIVE TrailingSlashes(_)
TrailingSlashes(s) ==
    IF s # <<>> /\ s[Len(s)] = "/" THEN 1 + TrailingSlashes(SubSeq(s, 1, Len(s) - 1)) ELSE 0

RECURSIVE LeadingSlashes(_)
LeadingSlashes(s) ==
    IF s # <<>> /\ Head(s) = "/" THEN 1 + LeadingSlashes(Tail(s)) ELSE 0

\* s without its trailing slashes, and without its leading slashes
BaseCore(s) == SubSeq(s, 1, Len(s) - TrailingSlashes(s))
PathCore(s) == SubSeq(s, LeadingSlashes(s) + 1, Len(s))

CalledFileURL == call.fn = "FileURL"

\* C15 as stated: whatever the number of slashes at the end of the base and
\* at the start of the path, the URL requested has exactly one slash between
\* the two.
C15_ExactlyOneSlash ==
    CalledFileURL =>
        call.res = BaseCore(call.arg.baseURL) \o <<"/">> \o PathCore(call.arg.filePath)

\* C15 as amended: at most one slash is taken off the end of the base and at
\* most one off the start of the path, and the two are joined by one slash;
\* so there is exactly one slash between them when the base ends in at most
\* one slash and the path starts with at most one, and every further slash
\* is kept.
C15_OneSlashTakenOffEachSide ==
    CalledFileURL =>
        LET nb == TrailingSlashes(call.arg.baseURL)
            np == LeadingSlashes(call.arg.filePath)
        IN  /\ call.res = BaseCore(call.arg.baseURL)
                              \o Slashes(IF nb > 1 THEN nb - 1 ELSE 0) \o <<"/">>
                              \o Slashes(IF np > 1 THEN np - 1 ELSE 0)
                              \o PathCore(call.arg.filePath)
            /\ (nb <= 1 /\ np <= 1) =>
                   call.res = BaseCore(call.arg.baseURL) \o <<"/">> \o PathCore(call.arg.filePath)

\* C15 witness: the scenario, a base that ends in a slash and a path that
\* starts with one.
C15_Witness ==
    /\ CalledFileURL
    /\ call.arg.baseURL = UrlXSlash
    /\ call.arg.filePath = <<"/">> \o PathA
    /\ call.res = UrlX \o <<"/">> \o PathA

CalledParse == call.fn = "ParseChangesCSV"

\* the rows of a document: its lines that are not empty
Rows(data) == {i \in 1..Len(data) : data[i] # <<>>}
WellFormed(data) == {i \in Rows(data) : Len(data[i]) >= 2}
BadRows(data) == {i \in WellFormed(data) : data[i][2] = BadTime}
Ragged(data) == \E i, j \in Rows(data) : Len(data[i]) # Len(data[j])
Max(S) == CHOOSE x \in S : \A y \in S : y <= x
Min(S) == CHOOSE x \in S : \A y \in S : x <= y

\* the timestamp of the last row of data for path
LastStamp(data, path) == data[Max({i \in WellFormed(data) : data[i][1] = path})][2]

\* C17: blank lines and rows with fewer than two columns are skipped and
\* never abort the parse, wherever they stand among rows of two columns with
\* a valid timestamp; the result holds exactly the well-formed rows.
C17_ShortRowsSkipped ==
    (CalledParse /\ BadRows(call.arg) = {}
        /\ \A i \in Rows(call.arg) : Len(call.arg[i]) <= 2) =>
        /\ ~call.res.err
        /\ DOMAIN call.res.changes = {call.arg[i][1] : i \in WellFormed(call.arg)}
        /\ \A f \in DOMAIN call.res.changes : call.res.changes[f] = LastStamp(call.arg, f)

C19_LastOccurrenceWins ==
    (CalledParse /\ ~call.res.err) =>
        /\ DOMAIN call.res.changes = {call.arg[i][1] : i \in WellFormed(call.arg)}
        /\ \A f \in DOMAIN call.res.changes : call.res.changes[f] = LastStamp(call.arg, f)
        /\ ChangedFiles(call.res.changes, StartTime) =
               {call.arg[i][1] : i \in {j \in WellFormed(call.arg) :
                    LastStamp(call.arg, call.arg[j][1]) > StartTime}}

\* C19 witness: a.json is logged after lastSync and then, in a later row,
\* before it: the mapping holds the later row's timestamp and a.json is not
\* in the changed-file set.
C19_Witness ==
    /\ CalledParse
    /\ call.arg = <<<<PathA, StartTime + 1>>, <<PathA, StartTime - 1>>>>
    /\ ~call.res.err
    /\ call.res.changes[PathA] = StartTime - 1
    /\ ChangedFiles(call.res.changes, StartTime) = {}

CalledName == call.fn = "urlToDirectoryName"

\* C20: the directory name derived from a URL holds only characters of
\* [a-zA-Z0-9._-] (words and single underscores), no two underscores in a
\* row, and no underscore at its start or end.
C20_NameIsSanitized ==
    (CalledName /\ ~call.panic) =>
        /\ \A i \in 1..Len(call.res) : IsWord(call.res[i]) \/ call.res[i] = "_"
        /\ \A i \in 1..(Len(call.res) - 1) : ~(call.res[i] = "_" /\ call.res[i + 1] = "_")
        /\ call.res # <<>> => (Head(call.res) # "_" /\ call.res[Len(call.res)] # "_")

\* C20 witness: a URL with two unsafe characters in a row between two words
\* has been given the name of the two words with one underscore between.
C20_Witness ==
    /\ CalledName
    /\ ~call.panic
    /\ call.res = <<"h", "_", "h">>
    /\ \E i \in 1..(Len(call.arg) - 1) : ~IsWord(call.arg[i]) /\ ~IsWord(call.arg[i + 1])

\* C21: two different directory URLs are never given the same dataset
\* directory name.
C21_NamesDoNotCollide ==
    (call.fn = "urlToDirectoryNameTwice" /\ call.arg[1] # call.arg[2]) =>
        call.res[1] # call.res[2]

\* what FromDirectoryURL received from cache.IsValidCache(targetPath) in
\* the step that leaves "check": the three results, and whether it was an error
ValidityError(p) == pc'[p] = "failed" /\ obs'[p].err = "check cache validity"
ValidityResult(p) == <<inv'[p].isValid, inv'[p].metadata>>

C23_Step(p) ==
    (pc[p] = "check" /\ pc'[p] # "check") =>
        LET path == MetadataPath(p)
        IN  IF path \notin DOMAIN files
            THEN ~ValidityError(p) /\ ValidityResult(p) = <<FALSE, NoMeta>>
            ELSE IF files[path].kind \notin {"meta", "data"}
            THEN ValidityError(p) /\ ValidityResult(p) = <<FALSE, NoMeta>>
            ELSE IF files[path].kind = "data"
            THEN ~ValidityError(p) /\ ValidityResult(p) = <<FALSE, SyncMetadata(ZeroTime, <<>>)>>
            ELSE IF now - files[path].LastSync > ThreeWeeks
            THEN /\ ~ValidityError(p)
                 /\ ValidityResult(p) =
                        <<FALSE, SyncMetadata(files[path].LastSync, files[path].SourceURL)>>
            ELSE /\ ~ValidityError(p)
                 /\ ValidityResult(p) =
                        <<TRUE, SyncMetadata(files[path].LastSync, files[path].SourceURL)>>

\* C23: the cache-validity check gives (not valid, no record) when the
\* dataset directory holds no record, (not valid, the record) when the record
\* is older than three weeks, (valid, the record) when it is not, and an
\* error with neither when the record cannot be decoded.
C23_ValidityResults == [][\A p \in Procs : C23_Step(p)]_vars

\* an invocation has found a record older than three weeks and holds it, with
\* the directory URL it names; an earlier save had left an undecodable record
C23_Witness ==
    \E p \in Procs :
        /\ Checked(p)
        /\ HadRecord(p)
        /\ ~inv[p].isValid
        /\ inv[p].metadata = RecordBefore(p)
        /\ inv[p].metadata.SourceURL = inv[p].directoryURL
        /\ obs[p].checkNow - inv[p].metadata.LastSync > ThreeWeeks

\* an invocation has failed on a record that cannot be decoded
C23_WitnessUndecodable ==
    \E p \in Procs :
        /\ pc[p] = "failed"
        /\ obs[p].err = "check cache validity"
        /\ MetadataPath(p) \in DOMAIN files
        /\ files[MetadataPath(p)].kind \notin {"meta", "data"}
        /\ inv[p].metadata = NoMeta

\* the files of a tree other than the metadata record of p's dataset
TreeOf(p, tree) == [f \in DOMAIN tree \ {MetadataPath(p)} |-> tree[f]]

\* nothing has changed upstream since the sync that wrote the record: the
\* change log p has fetched has no entry later than the record's lastSync
NothingNewer(p) ==
    \A f \in DOMAIN inv[p].allChanges : inv[p].allChanges[f] <= inv[p].metadata.LastSync

C24_Step(p) ==
    /\ (pc[p] = "filter" /\ pc'[p] # "filter" /\ NothingNewer(p)) =>
           /\ obs'[p].changedFiles = {}
           /\ pc'[p] = "save"
    /\ (Incremental(p) /\ pc'[p] \in {"save", "done"} /\ obs'[p].changedFiles = {}) =>
           /\ TreeOf(p, files') = TreeOf(p, obs'[p].files0)
           /\ dirs' = obs'[p].dirs0
           /\ Len(obs'[p].requests) = 1
           /\ (pc'[p] = "done" =>
                  /\ files'[MetadataPath(p)].kind = "meta"
                  /\ files'[MetadataPath(p)].LastSync >= RecordBefore(p).LastSync)

\* C24: a sync that follows a sync with nothing changed upstream in between
\* (the change log has no entry later than the lastSync the first one wrote)
\* has an empty changed-file set, requests no file and leaves the tree of the
\* dataset as the first one left it; only the metadata record is rewritten.
C24_SecondSyncChangesNothing == [][\A p \in Procs : C24_Step(p)]_vars

\* a second sync has succeeded over the documents of the first with an
\* empty changed-file set and has advanced the record's lastSync
C24_Witness ==
    \E p \in Procs :
        /\ pc[p] = "done"
        /\ Incremental(p)
        /\ HadRecord(p)
        /\ obs[p].changedFiles = {}
        /\ \E f \in DOMAIN obs[p].files0 : obs[p].files0[f].kind = "data"
        /\ TreeOf(p, files) = TreeOf(p, obs[p].files0)
        /\ files[MetadataPath(p)].LastSync > RecordBefore(p).LastSync

\* where the files of p's changed-file set are stored
ChangedLocal(p) == {PathJoin(inv[p].targetPath, f) : f \in obs[p].changedFiles}

\* the files an incremental update may write: those of the changed-file set
\* and the metadata record
IncrementalWrites(p) == ChangedLocal(p) \cup {MetadataPath(p)}

\* C25: an incremental sync only augments the dataset: it never clears the
\* dataset directory, every file present when it began is still present, and
\* a file that is new or differs is in the changed-file set (or is the
\* metadata record).
C25_IncrementalOnlyAugments ==
    \A p \in Procs :
        Incremental(p) =>
            /\ ~obs[p].cleared
            /\ obs[p].dirs0 \subseteq dirs
            /\ \A f \in DOMAIN obs[p].files0 :
                   /\ f \in DOMAIN files
                   /\ files[f] # obs[p].files0[f] => f \in IncrementalWrites(p)
            /\ \A f \in DOMAIN files \ DOMAIN obs[p].files0 : f \in ChangedLocal(p)

\* an incremental sync has succeeded, has overwritten one document of the
\* changed-file set and has left another document as it was
C25_Witness ==
    \E p \in Procs :
        /\ pc[p] = "done"
        /\ Incremental(p)
        /\ \E f \in ChangedLocal(p) :
              f \in DOMAIN obs[p].files0 /\ files[f] # obs[p].files0[f]
        /\ \E f \in DOMAIN obs[p].files0 \ IncrementalWrites(p) :
              files[f] = obs[p].files0[f]

\* how often x occurs in the sequence s
Count(s, x) == Cardinality({i \in 1..Len(s) : s[i] = x})

\* the resources with a fixed name under the directory URL
FixedResources == {<<"changes.csv">>, <<"archive_latest.txt">>, <<"index.txt">>}

\* C29 as stated: within one invocation no URL is requested twice.
C29_EachResourceOnce ==
    \A p \in Procs : \A i, j \in 1..Len(obs[p].requests) :
        obs[p].requests[i] = obs[p].requests[j] => i = j

C29_Step(p) ==
    /\ pc'[p] # "idle" =>
           \/ obs'[p].requests = obs[p].requests
           \/ /\ Len(obs'[p].requests) = Len(obs[p].requests) + 1
              /\ SubSeq(obs'[p].requests, 1, Len(obs[p].requests)) = obs[p].requests
    /\ (pc[p] = "failed" /\ pc'[p] # "idle") =>
           /\ pc'[p] = "failed"
           /\ obs'[p].requests = obs[p].requests
    /\ \A name \in FixedResources :
           Count(obs'[p].requests, ResourceURL(inv'[p].directoryURL, name)) <= 1
    /\ inv'[p].archiveURL # <<>> => Count(obs'[p].requests, inv'[p].archiveURL) <= 1
    /\ (pc[p] = "files" /\ <<pc'[p], inv'[p], obs'[p]>> # <<pc[p], inv[p], obs[p]>>) =>
           /\ obs'[p].requests \in
                 {obs[p].requests,
                  Append(obs[p].requests,
                         FileURL(inv[p].directoryURL, Head(inv[p].filePaths)))}
           /\ \/ pc'[p] = "failed"
              \/ inv'[p].filePaths = Tail(inv[p].filePaths)

\* C29 (amended): an invocation makes one request per step; changes.csv,
\* archive_latest.txt and index.txt are requested at most once each; each
\* entry of the file list is requested at most once, in one pass of the loop
\* that either fails the invocation or moves on to the next entry; once the
\* invocation has failed it makes no further request.
C29_NoRetry == [][\A p \in Procs : C29_Step(p)]_vars

\* a file request has failed after an earlier request of the invocation
\* succeeded, and the failed URL was requested once
C29_Witness ==
    \E p \in Procs :
        /\ pc[p] = "failed"
        /\ obs[p].err = "download"
        /\ Len(obs[p].requests) >= 2
        /\ Count(obs[p].requests, obs[p].requests[Len(obs[p].requests)]) = 1

\* the datasets ClearAllDataSets found, and those on its list of errors
Listed == Range(call.arg.listed)
Reported == {call.res.errors[i][1] : i \in DOMAIN call.res.errors}

\* nothing is left of the dataset
Gone(name) == <<name>> \notin dirs /\ FilesUnder(<<name>>) = {}

\* C27: ClearAllDataSets calls ClearDataSet for every dataset it has
\* listed, whatever the earlier calls returned: each listed dataset is gone
\* or is on the list of errors, those whose deletion failed and no others are
\* on the list, and the call returns an error, which carries the list, exactly
\* when the list is not empty.
C27_ClearAllAttemptsEach ==
    (call.fn = "ClearAllDataSets" /\ call.res.err # "list") =>
        /\ \A name \in Listed : Gone(name) \/ name \in Reported
        /\ \A name \in Listed \ call.arg.failing : Gone(name)
        /\ Reported = call.arg.failing
        /\ Len(call.res.errors) = Cardinality(Reported)
        /\ call.res.err = "some" <=> call.arg.failing # {}

\* the first dataset could not be deleted, a later one is gone, and the call
\* has returned the error
C27_Witness ==
    /\ call.fn = "ClearAllDataSets"
    /\ Len(call.arg.listed) >= 2
    /\ call.arg.listed[1] \in Reported
    /\ \E i \in 2..Len(call.arg.listed) :
          call.arg.listed[i] \notin Reported /\ Gone(call.arg.listed[i])
    /\ call.res.err = "some"

\* C28: GetDataSetSourceURL returns the sourceURL of the dataset's record;
\* it fails with "does not exist" when the dataset directory is missing and
\* with "no metadata found" when the directory holds no record (and with a
\* third error when the record cannot be decoded).
C28_SourceURLOrError ==
    call.fn = "GetDataSetSourceURL" =>
        LET dataSetPath == <<call.arg>>
            record      == Append(dataSetPath, MetadataName)
        IN  IF dataSetPath \notin dirs
            THEN call.res = [url |-> <<>>, err |-> "does not exist"]
            ELSE IF record \notin DOMAIN files
            THEN call.res = [url |-> <<>>, err |-> "no metadata found"]
            ELSE IF files[record].kind = "meta"
            THEN call.res = [url |-> files[record].SourceURL, err |-> "none"]
            ELSE call.res = [url |-> <<>>, err |-> "failed to load metadata"]

\* the call has returned the URL the dataset was synced from
C28_Witness ==
    /\ call.fn = "GetDataSetSourceURL"
    /\ call.res.err = "none"
    /\ call.res.url # <<>>
    /\ urlToDirectoryName(call.res.url) = call.arg

\* the call has failed on a directory without a record
C28_WitnessNoRecord ==
    /\ call.fn = "GetDataSetSourceURL"
    /\ <<call.arg>> \in dirs
    /\ call.res.err = "no metadata found"

\* the call has failed on a dataset that does not exist
C28_WitnessMissing ==
    /\ call.fn = "GetDataSetSourceURL"
    /\ call.res.err = "does not exist"

\* C22: a sync leaves every file outside the dataset directory of its URL
\* as it found it: none created, none overwritten, none deleted.
C22_SyncStaysInDataset ==
    \A p \in Procs :
        pc[p] # "idle" =>
            \A f \in (DOMAIN files) \cup (DOMAIN obs[p].files0) :
                \/ IsPrefix(inv[p].targetPath, f)
                \/ /\ f \in DOMAIN files
                   /\ f \in DOMAIN obs[p].files0
                   /\ files[f] = obs[p].files0[f]

\* the invocation of p has returned
Returned(p) == pc[p] \in {"done", "failed"}

\* the dataset directory holds every file the remote lists
TreeComplete(p) ==
    \A i \in DOMAIN SteadyIndex :
        /\ PathJoin(inv[p].targetPath, SteadyIndex[i]) \in DOMAIN files
        /\ files[PathJoin(inv[p].targetPath, SteadyIndex[i])] = SteadyBody

C30_Step(p) ==
    /\ (pc[p] = "save" /\ pc'[p] = "done") =>
           files'[MetadataPath(p)] = SyncMetadata(now, inv[p].directoryURL)
    /\ (pc[p] = "clear" /\ pc'[p] = "recreate") =>
           /\ \A f \in DOMAIN files' : ~IsPrefix(inv[p].targetPath, f)
           /\ \A q \in Procs \ {p} : pc'[q] = pc[q] /\ inv'[q] = inv[q]
    /\ \A q \in Procs \ {p} :
           (pc[q] = "clear" /\ pc[p] \notin {"idle", "done", "failed"}) =>
               ENABLED ClearTarget(q)

\* C30: nothing keeps two syncs of one dataset apart: while one invocation
\* is under way the other can clear the dataset directory, a clear removes
\* every file of the dataset whoever wrote it, and a save puts the saver's
\* record on disk whatever record was there.
C30_NoLocking == [][\A p \in Procs : C30_Step(p)]_vars

\* both invocations have returned, one of them successfully after it had
\* downloaded every listed file; its record is on disk, and the files it
\* wrote are not, removed by the other's clear
C30_Witness ==
    \E p, q \in Procs :
        /\ p # q
        /\ pc[p] = "done"
        /\ Full(p)
        /\ Returned(q)
        /\ obs[q].cleared
        /\ MetadataPath(p) \in DOMAIN files
        /\ files[MetadataPath(p)] = SyncMetadata(obs[p].saveNow, inv[p].directoryURL)
        /\ \A i \in DOMAIN SteadyIndex :
              PathJoin(inv[p].targetPath, SteadyIndex[i]) \in obs[p].written
        /\ \E f \in obs[p].written : f \notin DOMAIN files
        /\ ~TreeComplete(p)

\* both invocations have succeeded and the record on disk is the one saved
\* second, over the other's
C30_WitnessBothDone ==
    \E p, q \in Procs :
        /\ p # q
        /\ pc[p] = "done" /\ pc[q] = "done"
        /\ Full(p) /\ Full(q)
        /\ MetadataPath(p) \in DOMAIN files
        /\ files[MetadataPath(p)].kind = "meta"

\* the batch command has left its loop
BatchReturned == call.fn \in BatchCommands /\ call.returned \in {"nil", "error"}

\* C26: a batch sync goes through every dataset of the batch whatever the
\* earlier ones returned: at every point of the loop the successes and the
\* errors collected add up to the datasets attempted; when the command
\* returns every dataset of the batch has been attempted, the successes and
\* the errors add up to the size of the batch, and the command returns an
\* error exactly when it has collected one.
C26_BatchAttemptsEach ==
    call.fn \in BatchCommands =>
        /\ \A i \in DOMAIN call.attempted : call.attempted[i] = call.batch[i]
        /\ call.successCount + Len(call.syncErrors)
              \in {Len(call.attempted), Len(call.attempted) - 1}
        /\ BatchReturned =>
              /\ call.attempted = call.batch
              /\ call.successCount + Len(call.syncErrors) = Len(call.batch)
              /\ call.returned = "error" <=> Len(call.syncErrors) > 0

\* the first dataset of a batch failed to sync, a later one was synced, and
\* the command has returned an error
C26_Witness ==
    /\ BatchReturned
    /\ Len(call.batch) >= 2
    /\ call.syncErrors # <<>>
    /\ call.syncErrors[1] = <<call.batch[1], "failed to sync">>
    /\ call.successCount >= 1
    /\ call.returned = "error"

\* the moment the first sync read the remote listing
ReadMoment == call.at

\* C31: every entry of the change log whose timestamp is later than the
\* moment the successful sync S read the remote is in the changed-file set
\* of the next incremental sync.
C31_Step ==
    (/\ FirstSyncDone
     /\ call.fn = "read"
     /\ pc[NextSync] = "filter"
     /\ pc'[NextSync] # "filter"
     /\ inv[NextSync].metadata.LastSync = obs[FirstSync].saveNow) =>
        \A f \in DOMAIN inv[NextSync].allChanges :
            inv[NextSync].allChanges[f] > ReadMoment => f \in obs'[NextSync].changedFiles

C31_NoChangeMissed == [][C31_Step]_vars

\* the name of the dataset p syncs
DataSetName(p) == inv[p].targetPath[1]

\* C32: a dataset that held the record of a successful sync when an
\* invocation began still has a record when the invocation has returned,
\* whether it succeeded or failed: GetDataSetSourceURL finds its source URL.
C32_StaysResyncable ==
    \A p \in Procs :
        (HadRecord(p) /\ Returned(p)) => GetDataSetSourceURL(DataSetName(p)).err = "none"

\* C33: the dataset directory name derived from a directory URL (a string
\* that is not empty and that url.Parse accepts) is not empty and is neither
\* "." nor "..".
C33_NameIsProperChild ==
    (CalledName /\ ~call.panic /\ call.arg # <<>>) => call.res \notin {<<>>, Dot, DotDot}

\* the files a step creates or overwrites
WrittenInStep == {f \in DOMAIN files' : f \notin DOMAIN files \/ files'[f] # files[f]}

\* C34: every pass of the loop of IndividualFiles stores the file it has
\* fetched inside the destination directory, whatever the relative path.
C34_WritesInsideDestination ==
    [][\A p \in Procs :
          pc[p] = "files" => \A f \in WrittenInStep : IsPrefix(inv[p].targetPath, f)]_vars

\* the probe's body, with the white space around it removed, names an archive
ArchiveNamed(p) ==
    inv[p].archiveURL \notin {<<>>, ResourceURL(inv[p].directoryURL, <<>>)}

\* C35: once the probe of a full sync has been answered, the bulk path is
\* taken exactly when the body names an archive; a body that is empty or
\* nothing but white space leads to the listing path.
C35_BulkOnlyWhenArchiveNamed ==
    \A p \in Procs :
        inv[p].mode \in {"bulk", "listing"} => (inv[p].mode = "bulk" <=> ArchiveNamed(p))

\* the metadata records on disk: the paths of the files that hold one
Records == {f \in DOMAIN files : f[Len(f)] = MetadataName /\ files[f].kind = "meta"}

\* C36: the directory that holds a metadata record is the one named
\* urlToDirectoryName(record.SourceURL), and a sync by name works in the
\* directory of that name.
C36_RecordNamesItsDirectory ==
    /\ \A f \in Records : PathDir(f) = <<urlToDirectoryName(files[f].SourceURL)>>
    /\ \A p \in Procs :
          (call.fn \in BatchCommands /\ pc[p] # "idle") =>
              inv[p].targetPath = <<call.batch[call.next]>>

\* a sync by name has saved its record in the directory of that name
C36_Witness ==
    \E p \in Procs :
        /\ call.fn \in BatchCommands
        /\ pc[p] = "done"
        /\ MetadataPath(p) \in Records
        /\ files[MetadataPath(p)] = SyncMetadata(obs[p].saveNow, inv[p].directoryURL)
        /\ obs[p].saveNow > StartTime + ThreeWeeks
        /\ MetadataPath(p) = <<call.batch[call.next], MetadataName>>

\* the record of p's dataset is on disk in tree and cannot be decoded
Undecodable(p, tree) ==
    /\ MetadataPath(p) \in DOMAIN tree
    /\ ~JsonUnmarshalMetadata(tree[MetadataPath(p)]).ok

\* the metadata files on disk that cannot be decoded
UndecodableRecords ==
    {f \in DOMAIN files : f[Len(f)] = MetadataName /\ ~JsonUnmarshalMetadata(files[f]).ok}

C37_Step ==
    /\ \A p \in Procs :
          (pc[p] = "check" /\ pc'[p] # "check" /\ Undecodable(p, files)) =>
              /\ ValidityError(p)
              /\ obs'[p].requests = <<>>
              /\ ~obs'[p].cleared
              /\ files' = files /\ files = obs[p].files0
              /\ DirsUnder(inv[p].targetPath) = {d \in obs[p].dirs0 : IsPrefix(inv[p].targetPath, d)}
              /\ dirs' = dirs
    /\ \A f \in UndecodableRecords : f \in DOMAIN files' /\ files'[f] = files[f]

\* C37: an invocation that finds a metadata record it cannot decode fails at
\* the cache check, having requested nothing and cleared nothing and with
\* the record and every cached file as they were; no sync changes such a
\* record, so every later invocation fails in the same way.
C37_UndecodableRecordStops == [][C37_Step]_vars

\* an invocation that began with an undecodable record and cached files on
\* disk has failed at the cache check and left all of it as it was
C37_Witness ==
    \E p \in Procs :
        /\ pc[p] = "failed"
        /\ obs[p].err = "check cache validity"
        /\ Undecodable(p, obs[p].files0)
        /\ \E f \in DOMAIN obs[p].files0 : f # MetadataPath(p) /\ IsPrefix(inv[p].targetPath, f)
        /\ files = obs[p].files0
        /\ obs[p].requests = <<>>
        /\ ~obs[p].cleared

====
